---------------------------- MODULE Spec2Model ----------------------------
(***************************************************************************)
(* Timetable synchronization engine of schedule-bot.                       *)
(*                                                                         *)
(*   SpecEngine run_full_sync, run_full_sync_for_faculty and               *)
(*              run_full_sync_for_group (worker.py) called one after the   *)
(*              other against a remote that answers as it likes.           *)
(*   Spec       run_full_sync (worker.py) started by the chat handler and  *)
(*              by the scheduler, the store, and the instructor directory  *)
(*              cache (search_professors.py) with a searching user.        *)
(*   SpecRetry  TimetableClient.request_with_retry (fetcher.py): one call  *)
(*              against a scripted remote.                                 *)
(*   SpecParse  extract_lessons_from_timetable_json (parser.py): one call. *)
(***************************************************************************)
EXTENDS Integers, Sequences, FiniteSets, Bags, TLC

VARIABLES
    \* ---- request_with_retry (fetcher.py:56-117) ----
    max_retries,     \* settings.MAX_RETRIES, number of attempts of the loop
    backoff,         \* settings.RETRY_BACKOFF_FACTOR
    script,          \* the remote: script[i] is its answer to the i-th GET
    attempt,         \* loop variable of "for attempt in range(1, max_retries + 1)"
    attempts,        \* GETs issued so far
    delays,          \* inter-request delays slept (asyncio.sleep(self.delay))
    sleeps,          \* backoff sleeps performed, in order (the waits)
    last_exc,        \* last_exc of the call
    rq_pc,           \* "loop" | "returned" | "raised"
    rq_out,          \* what the call returned or raised
    \* ---- extract_lessons_from_timetable_json (parser.py:93-197) ----
    p_pc,            \* "start" | "doc" (in the container loop of a document) | "returned"
    p_shape,         \* "dict": one document; "list": a list of documents
    p_docs,          \* documents of the input entered so far
    p_tt,            \* the current document: lesson_time_map and ttype
    p_n,             \* containers of the input consumed so far
    p_keys,          \* composite keys of the containers consumed so far (history)
    records,         \* records of the call
    seen_lessons,    \* seen_lessons of the call
    \* ---- the store behind AsyncSessionLocal (db.py:15-30) ----
    db,              \* what the one shared connection sees, uncommitted work included
    committed,       \* what the last commit left
    \* ---- instructor directory cache (search_professors.py, worker.py:35) ----
    CACHE_UPDATE_ENABLED,
    professors_cache,
    cache_lock,      \* search_professors._cache_lock: its holder, or Free
    call_pc,         \* per caller of get_cached_professors: position in the call
    all_professors,  \* per caller: the rows its select(Professor) returned
    \* ---- run_full_sync (worker.py:232-360), one per trigger ----
    pc,              \* per run: position
    semaphore,       \* per run: free permits of its TimetableClient's semaphore
    groups,          \* per run: the fetched catalog
    idx,             \* per run: position of the group loop in groups
    valid_groups,    \* per run
    exit_kind,       \* per run: "normal" | "return" | "raise": how the try block is left
    existing_profs,  \* per run: whether the local existing_profs is bound
    pre_rebuild,     \* per run: the cache when the run disabled the gate (history)
    \* ---- the entry points of worker.py, one call at a time ----
    call,            \* the last call: entry point, arguments, what the remote answered
    before,          \* the committed store when the last call began (history)
    log,             \* what the last call logged: valid_groups, the groups committed
    result,          \* how the last call ended: returned value or raised exception
    calls,           \* calls made so far
    client_closed,   \* whether the TimetableClient of the last call was closed
    \* ---- sync_lock.py: one asyncio.Lock for the whole process ----
    sync_locked,     \* _sync_lock.locked()
    sync_waiters,    \* the callers suspended in _sync_lock.acquire(), oldest first
    sync_woken,      \* the waiters a release has woken and that have not run yet
    lk_pc,           \* per caller: "out" | "waiting" | "in" (set_sync_running returned)
    foreign_release  \* a caller that was not "in" has released the lock (history)

rq_vars == <<max_retries, backoff, script, attempt, attempts, delays, sleeps,
             last_exc, rq_pc, rq_out>>

p_vars == <<p_pc, p_shape, p_docs, p_tt, p_n, p_keys, records, seen_lessons>>

store_vars == <<db, committed>>

cache_vars == <<CACHE_UPDATE_ENABLED, professors_cache, cache_lock, call_pc, all_professors>>

run_vars == <<pc, semaphore, groups, idx, valid_groups, exit_kind, existing_profs, pre_rebuild>>

sync_vars == <<store_vars, cache_vars, run_vars>>

engine_vars == <<call, before, log, result, calls, client_closed>>

lock_vars == <<sync_locked, sync_waiters, sync_woken, lk_pc, foreign_release>>

vars == <<rq_vars, p_vars, sync_vars, engine_vars, lock_vars>>

-----------------------------------------------------------------------------
(* Bounds *)

\* calls of entry points in one behaviour of SpecEngine
MaxCalls == 3

\* largest configured MAX_RETRIES explored; the script of the remote is as long
MaxAttempts == 3

\* values of RETRY_BACKOFF_FACTOR explored
BackoffFactors == {1, 2, 3}

\* documents in one list passed to extract_lessons_from_timetable_json
MaxDocs == 2

\* lesson containers in one input, over all its documents
MaxContainers == 3

\* settings.REQUEST_CONCURRENCY, the size of each client's semaphore
REQUEST_CONCURRENCY == 1

\* the triggers of run_full_sync: the chat handler and the nightly scheduler
Runs == {"handler", "scheduler"}

\* chat users searching for an instructor
Readers == {"user"}

\* groups of the remote catalog
GroupNames == {"g1"}

\* instructor texts of the remote lessons
InstructorTexts == {"Ivanov I.I."}

-----------------------------------------------------------------------------
(* Record normalizer: extract_lessons_from_timetable_json *)

\* Python's None, for text fields and for numeric fields
None == "None"
NoneInt == -1

\* truth value of a numeric field under "or": None and 0 are falsy
TruthyInt(x) == x # NoneInt /\ x # 0
\* truth value of a text field under "or": None and "" are falsy
TruthyStr(x) == x # None /\ x # ""

\* parse_lesson_time_data: slot index (enumerate from 0) -> the (start, end) pair
parse_lesson_time_data(lesson_time_data) ==
    [i \in 0..(Len(lesson_time_data) - 1) |-> lesson_time_data[i + 1]]

\* lesson_time_map.get(lesson_number, {}).get("start"), and "end" with it
SlotTimes(lesson_time_map, lesson_number) ==
    IF lesson_number \in DOMAIN lesson_time_map THEN lesson_time_map[lesson_number]
    ELSE None

\* ttype = tt.get("types") or tt.get("type") or tt.get("typesName") or "classes"
TypeOf(tt) ==
    IF TruthyStr(tt.types) THEN tt.types
    ELSE IF TruthyStr(tt.type) THEN tt.type
    ELSE IF TruthyStr(tt.typesName) THEN tt.typesName
    ELSE "classes"

\* weekday = cont.get("weekDay") or cont.get("week_day")
WeekdayOf(cont) == IF TruthyInt(cont.weekDay) THEN cont.weekDay ELSE cont.week_day

\* texts[i] if len(texts) > i else None (Python indexes from 0)
TextAt(texts, i) == IF Len(texts) > i THEN texts[i + 1] ELSE None

\* rec of one container (without group_name, the same for all records of a call)
RecordOf(cont, ttype) ==
    [weekday |-> WeekdayOf(cont),
     lesson_number |-> cont.lessonNumber,
     subject |-> TextAt(cont.texts, 1),
     professors |-> TextAt(cont.texts, 2),
     rooms |-> TextAt(cont.texts, 3),
     week_mark |-> cont.weekMark,
     type |-> ttype]

\* lesson_key: the fields of the record and the start and end time of the slot
LessonKey(cont, tt) ==
    <<RecordOf(cont, tt.ttype), SlotTimes(tt.lesson_time_map, cont.lessonNumber)>>

\* the membership test is skipped: every container gives a record
IsSeen_Never(key, seen) == FALSE

\* if lesson_key in seen_lessons: continue
IsSeen(key, seen) == key \in seen

\* raw lessonTimeData of a document: absent, or one of two bell schedules
LessonTimeDatas ==
    { <<>>,
      <<"08:30-10:05", "10:15-11:50">>,
      <<"09:00-10:35", "10:45-12:20">> }

\* the type keys of a document
TypeFields ==
    { [types |-> None, type |-> None, typesName |-> None],
      [types |-> "retake", type |-> None, typesName |-> None],
      [types |-> "", type |-> None, typesName |-> "retake"] }

\* raw lesson containers: the second differs in the slot, the third names the
\* weekday under the other key, the fourth has a short texts array
Containers ==
    { [lessonNumber |-> 0, weekDay |-> 1, week_day |-> NoneInt, weekMark |-> "every",
       texts |-> <<"", "Math", "Ivanov I.I.", "101">>],
      [lessonNumber |-> 1, weekDay |-> 1, week_day |-> NoneInt, weekMark |-> "every",
       texts |-> <<"", "Math", "Ivanov I.I.", "101">>],
      [lessonNumber |-> 0, weekDay |-> 0, week_day |-> 1, weekMark |-> "every",
       texts |-> <<"", "Math", "Ivanov I.I.", "101">>],
      [lessonNumber |-> 0, weekDay |-> 1, week_day |-> NoneInt, weekMark |-> "every",
       texts |-> <<"", "Math">>] }

NoDoc == [lesson_time_map |-> <<>>, ttype |-> None]

ParserIdle ==
    /\ p_pc = "idle" /\ p_shape = "dict" /\ p_docs = 0 /\ p_tt = NoDoc /\ p_n = 0
    /\ p_keys = {} /\ records = <<>> /\ seen_lessons = {}

ParseCall ==
    /\ p_pc = "start"
    /\ p_shape \in {"dict", "list"}
    /\ p_docs = 0
    /\ p_tt = NoDoc
    /\ p_n = 0
    /\ p_keys = {}
    /\ records = <<>>
    /\ seen_lessons = {}

\* lines 139-141: an empty document or an empty list is falsy: return []
ParseEmpty ==
    /\ p_pc = "start"
    /\ p_pc' = "returned"
    /\ UNCHANGED <<p_shape, p_docs, p_tt, p_n, p_keys, records, seen_lessons>>
    /\ UNCHANGED <<rq_vars, sync_vars, engine_vars, lock_vars>>

\* lines 147-153: enter the next document tt of timetables
ParseDocument ==
    /\ \/ p_pc = "start"
       \/ p_pc = "doc" /\ p_shape = "list"
    /\ p_docs < MaxDocs
    /\ \E ltd \in LessonTimeDatas, tf \in TypeFields :
          p_tt' = [lesson_time_map |-> parse_lesson_time_data(ltd), ttype |-> TypeOf(tf)]
    /\ p_docs' = p_docs + 1
    /\ p_pc' = "doc"
    /\ UNCHANGED <<p_shape, p_n, p_keys, records, seen_lessons>>
    /\ UNCHANGED <<rq_vars, sync_vars, engine_vars, lock_vars>>

\* lines 155-195: one container of the current document
ParseContainer ==
    /\ p_pc = "doc"
    /\ p_n < MaxContainers
    /\ \E cont \in Containers :
          LET key == LessonKey(cont, p_tt)
              rec == RecordOf(cont, p_tt.ttype)
          IN /\ p_keys' = p_keys \cup {rec}
             /\ IF IsSeen(key, seen_lessons)
                   THEN UNCHANGED <<records, seen_lessons>>
                   ELSE /\ seen_lessons' = seen_lessons \cup {key}
                        /\ records' = Append(records, rec)
    /\ p_n' = p_n + 1
    /\ UNCHANGED <<p_pc, p_shape, p_docs, p_tt>>
    /\ UNCHANGED <<rq_vars, sync_vars, engine_vars, lock_vars>>

\* line 197: return records
ParseReturn ==
    /\ p_pc = "doc"
    /\ p_pc' = "returned"
    /\ UNCHANGED <<p_shape, p_docs, p_tt, p_n, p_keys, records, seen_lessons>>
    /\ UNCHANGED <<rq_vars, sync_vars, engine_vars, lock_vars>>

-----------------------------------------------------------------------------
(* request_with_retry *)

\* status 0 stands for a transport-level failure (timeout, connection reset):
\* client.get raises and no response exists
TRANSPORT == 0

StatusCodes == {200, 400, 403, 404, 429, 500, 503}

\* A response: its status and whether its body parses as JSON (r.json()).
Responses ==
    [status : {TRANSPORT}, json : {FALSE}]
      \cup [status : {200, 404}, json : BOOLEAN]
      \cup [status : StatusCodes \ {200, 404}, json : {TRUE}]

RECURSIVE Pow(_, _)
Pow(b, n) == IF n = 0 THEN 1 ELSE b * Pow(b, n - 1)

\* a linear instead of an exponential backoff
BackoffWait_Linear(b, n) == b * n

\* wait = backoff ** attempt
BackoffWait(b, n) == Pow(b, n)

\* 404 not told apart from the other status errors
IsNotFound_Never(status) == FALSE

\* if status == 404
IsNotFound(status) == status = 404

\* if status == 429
IsRateLimited(status) == status = 429

\* every status error from 400 on retried
IsServerError_From400(status) == 400 <= status /\ status < 600

\* if 500 <= status < 600
IsServerError(status) == 500 <= status /\ status < 600

NoExc == [kind |-> "none", status |-> 0, attempt |-> 0]

\* the exception object of one attempt
HTTPStatusError(status, n) == [kind |-> "HTTPStatusError", status |-> status, attempt |-> n]
RequestError(n) == [kind |-> "RequestError", status |-> TRANSPORT, attempt |-> n]
JSONDecodeError(n) == [kind |-> "JSONDecodeError", status |-> 200, attempt |-> n]
\* "raise None": TypeError: exceptions must derive from BaseException
TypeError == [kind |-> "TypeError", status |-> 0, attempt |-> 0]

RetryCall ==
    /\ max_retries \in 0..MaxAttempts
    /\ backoff \in BackoffFactors
    /\ script \in [1..MaxAttempts -> Responses]
    /\ attempt = 1
    /\ attempts = 0
    /\ delays = 0
    /\ sleeps = <<>>
    /\ last_exc = NoExc
    /\ rq_pc = "loop"
    /\ rq_out = NoExc

\* the response of the current iteration
Resp == script[attempt]

InLoop == rq_pc = "loop" /\ attempt <= max_retries

\* lines 86-90: the GET succeeds with 2xx and a JSON body: return r.json()
AttemptOk ==
    /\ InLoop
    /\ Resp.status = 200 /\ Resp.json
    /\ attempts' = attempts + 1
    /\ delays' = delays + 1
    /\ rq_pc' = "returned"
    /\ rq_out' = [kind |-> "json", status |-> 200, attempt |-> attempt]
    /\ UNCHANGED <<max_retries, backoff, script, attempt, sleeps, last_exc>>
    /\ UNCHANGED <<p_vars, sync_vars, engine_vars, lock_vars>>

\* lines 93-97: 404 is returned, parsed or as the synthetic marker
AttemptNotFound ==
    /\ InLoop
    /\ Resp.status # TRANSPORT /\ Resp.status # 200
    /\ IsNotFound(Resp.status)
    /\ attempts' = attempts + 1
    /\ delays' = delays + 1
    /\ rq_pc' = "returned"
    /\ rq_out' = [kind |-> IF Resp.json THEN "body404" ELSE "marker404",
                  status |-> 404, attempt |-> attempt]
    /\ UNCHANGED <<max_retries, backoff, script, attempt, sleeps, last_exc>>
    /\ UNCHANGED <<p_vars, sync_vars, engine_vars, lock_vars>>

\* lines 98-103: 429: sleep backoff ** attempt, then next attempt
AttemptRateLimited ==
    /\ InLoop
    /\ Resp.status # TRANSPORT /\ Resp.status # 200
    /\ ~IsNotFound(Resp.status)
    /\ IsRateLimited(Resp.status)
    /\ attempts' = attempts + 1
    /\ delays' = delays + 1
    /\ sleeps' = Append(sleeps, BackoffWait(backoff, attempt))
    /\ last_exc' = HTTPStatusError(Resp.status, attempt)
    /\ attempt' = attempt + 1
    /\ UNCHANGED <<max_retries, backoff, script, rq_pc, rq_out>>
    /\ UNCHANGED <<p_vars, sync_vars, engine_vars, lock_vars>>

\* lines 104-109: 5xx: sleep backoff ** attempt, then next attempt
AttemptServerError ==
    /\ InLoop
    /\ Resp.status # TRANSPORT /\ Resp.status # 200
    /\ ~IsNotFound(Resp.status) /\ ~IsRateLimited(Resp.status)
    /\ IsServerError(Resp.status)
    /\ attempts' = attempts + 1
    /\ delays' = delays + 1
    /\ last_exc' = HTTPStatusError(Resp.status, attempt)
    /\ sleeps' = Append(sleeps, BackoffWait(backoff, attempt))
    /\ attempt' = attempt + 1
    /\ UNCHANGED <<max_retries, backoff, script, rq_pc, rq_out>>
    /\ UNCHANGED <<p_vars, sync_vars, engine_vars, lock_vars>>

\* lines 104, 110: any other status error is re-raised at once
AttemptOtherStatus ==
    /\ InLoop
    /\ Resp.status # TRANSPORT /\ Resp.status # 200
    /\ ~IsNotFound(Resp.status) /\ ~IsRateLimited(Resp.status)
    /\ ~IsServerError(Resp.status)
    /\ attempts' = attempts + 1
    /\ delays' = delays + 1
    /\ last_exc' = HTTPStatusError(Resp.status, attempt)
    /\ rq_pc' = "raised"
    /\ rq_out' = HTTPStatusError(Resp.status, attempt)
    /\ UNCHANGED <<max_retries, backoff, script, attempt, sleeps>>
    /\ UNCHANGED <<p_vars, sync_vars, engine_vars, lock_vars>>

\* lines 111-115: client.get raised (no delay is slept), or r.json() raised on a
\* 200 whose body is not JSON: sleep backoff ** attempt, then next attempt
AttemptException ==
    /\ InLoop
    /\ \/ Resp.status = TRANSPORT
       \/ Resp.status = 200 /\ ~Resp.json
    /\ attempts' = attempts + 1
    /\ delays' = IF Resp.status = TRANSPORT THEN delays ELSE delays + 1
    /\ last_exc' = IF Resp.status = TRANSPORT THEN RequestError(attempt)
                                             ELSE JSONDecodeError(attempt)
    /\ sleeps' = Append(sleeps, BackoffWait(backoff, attempt))
    /\ attempt' = attempt + 1
    /\ UNCHANGED <<max_retries, backoff, script, rq_pc, rq_out>>
    /\ UNCHANGED <<p_vars, sync_vars, engine_vars, lock_vars>>

\* line 117: the loop is over: raise last_exc
Exhausted ==
    /\ rq_pc = "loop" /\ attempt > max_retries
    /\ rq_pc' = "raised"
    /\ rq_out' = IF last_exc = NoExc THEN TypeError ELSE last_exc
    /\ UNCHANGED <<max_retries, backoff, script, attempt, attempts, delays, sleeps, last_exc>>
    /\ UNCHANGED <<p_vars, sync_vars, engine_vars, lock_vars>>

RetryIdle ==
    /\ max_retries = 0 /\ backoff = 1 /\ script = <<>> /\ attempt = 1 /\ attempts = 0
    /\ delays = 0 /\ sleeps = <<>> /\ last_exc = NoExc /\ rq_pc = "idle" /\ rq_out = NoExc

-----------------------------------------------------------------------------
(* The store *)

\* Every AsyncSession runs on the one connection of the StaticPool engine
\* (db.py:19): a flushed or executed write is seen by every session at once, a
\* commit makes all of it durable and a rollback discards all of it.
EmptyStore == [Group |-> {}, Lesson |-> {}, Professor |-> {}, ProfessorLesson |-> {}]

\* extract_professor_names: parenthesised titles dropped, dots turned into spaces,
\* blanks collapsed, split at commas
extract_professor_names(professors_text) ==
    CASE professors_text = "Ivanov I.I." -> {"Ivanov I I"}
      [] professors_text = "Petrov P.P." -> {"Petrov P P"}
      [] OTHER -> {}

\* all names the Lesson rows of a store mention
NamedProfessors(store) ==
    UNION {extract_professor_names(l.professors) : l \in store.Lesson}

\* the record sets a timetable document can normalise to, for group g
RecordSets(g) ==
    {[group |-> g, professors |-> t] : t \in InstructorTexts}

-----------------------------------------------------------------------------
(* Instructor directory cache: get_cached_professors and its callers *)

Free == "free"

Callers == Readers \cup Runs

\* "return _professors_cache" on any path: a reader is back in its handler, a run
\* leaves the finally block of run_full_sync (worker.py:351-360) the way it
\* entered it
AfterFinally(r) ==
    CASE exit_kind[r] = "raise" -> "raised"
      [] exit_kind[r] = "return" -> "done"
      [] OTHER -> "log"

Returns(c) ==
    IF c \in Runs THEN pc' = [pc EXCEPT ![c] = AfterFinally(c)]
    ELSE UNCHANGED pc

\* the call raises: out of a handler, or out of the finally block of the run
Raises(c) ==
    IF c \in Runs THEN pc' = [pc EXCEPT ![c] = "raised"]
    ELSE UNCHANGED pc

Calling(c) ==
    /\ call_pc[c] = "none"
    /\ c \in Runs => pc[c] = "final_get"

\* get_cached_professors without the test of the gate at lines 50-51
GateClosed_Ignored == FALSE

\* search_professors.py:50: if not worker.CACHE_UPDATE_ENABLED
GateClosed == ~CACHE_UPDATE_ENABLED

\* search_professors.py:50-60, up to the first await: the gate is closed or the
\* cache is not empty: return it
GetCached(c) ==
    /\ Calling(c)
    /\ GateClosed \/ professors_cache # {}
    /\ Returns(c)
    /\ UNCHANGED <<store_vars, cache_vars, semaphore, groups, idx, valid_groups,
                   exit_kind, existing_profs, pre_rebuild>>
    /\ UNCHANGED <<rq_vars, p_vars, engine_vars, lock_vars>>

\* search_professors.py:54-58, 91-96: cache empty, lock free: the lock is taken,
\* the second check and the gate test of _update_professors_cache pass without a
\* suspension, and the select is awaited
GetStartsReload(c) ==
    /\ Calling(c)
    /\ ~GateClosed /\ professors_cache = {}
    /\ cache_lock = Free
    /\ cache_lock' = c
    /\ call_pc' = [call_pc EXCEPT ![c] = "select"]
    /\ UNCHANGED <<store_vars, CACHE_UPDATE_ENABLED, professors_cache, all_professors, run_vars>>
    /\ UNCHANGED <<rq_vars, p_vars, engine_vars, lock_vars>>

\* search_professors.py:55: cache empty, lock held: wait for it
GetWaits(c) ==
    /\ Calling(c)
    /\ ~GateClosed /\ professors_cache = {}
    /\ cache_lock # Free
    /\ call_pc' = [call_pc EXCEPT ![c] = "wait_lock"]
    /\ UNCHANGED <<store_vars, CACHE_UPDATE_ENABLED, professors_cache, cache_lock,
                   all_professors, run_vars>>
    /\ UNCHANGED <<rq_vars, p_vars, engine_vars, lock_vars>>

\* search_professors.py:55-60, 91-92: the lock is granted; the cache was filled
\* meanwhile, or the gate was closed meanwhile: release and return the cache
GetLockedReturns(c) ==
    /\ call_pc[c] = "wait_lock"
    /\ cache_lock = Free
    /\ professors_cache # {} \/ ~CACHE_UPDATE_ENABLED
    /\ call_pc' = [call_pc EXCEPT ![c] = "none"]
    /\ Returns(c)
    /\ UNCHANGED <<store_vars, CACHE_UPDATE_ENABLED, professors_cache, cache_lock,
                   all_professors, semaphore, groups, idx, valid_groups, exit_kind,
                   existing_profs, pre_rebuild>>
    /\ UNCHANGED <<rq_vars, p_vars, engine_vars, lock_vars>>

\* search_professors.py:55-58, 91-96: the lock is granted, the cache is still empty
\* and the gate open: the select is awaited
GetLockedReloads(c) ==
    /\ call_pc[c] = "wait_lock"
    /\ cache_lock = Free
    /\ professors_cache = {} /\ CACHE_UPDATE_ENABLED
    /\ cache_lock' = c
    /\ call_pc' = [call_pc EXCEPT ![c] = "select"]
    /\ UNCHANGED <<store_vars, CACHE_UPDATE_ENABLED, professors_cache, all_professors, run_vars>>
    /\ UNCHANGED <<rq_vars, p_vars, engine_vars, lock_vars>>

\* search_professors.py:96-97: the select runs on the shared connection
ReloadSelects(c) ==
    /\ call_pc[c] = "select"
    /\ all_professors' = [all_professors EXCEPT ![c] = db.Professor]
    /\ call_pc' = [call_pc EXCEPT ![c] = "assign"]
    /\ UNCHANGED <<store_vars, CACHE_UPDATE_ENABLED, professors_cache, cache_lock, run_vars>>
    /\ UNCHANGED <<rq_vars, p_vars, engine_vars, lock_vars>>

\* search_professors.py:106-108: the select fails: the error is re-raised, the lock
\* released, the cache left as it was
ReloadFails(c) ==
    /\ call_pc[c] = "select"
    /\ call_pc' = [call_pc EXCEPT ![c] = "none"]
    /\ cache_lock' = Free
    /\ Raises(c)
    /\ UNCHANGED <<store_vars, CACHE_UPDATE_ENABLED, professors_cache, all_professors,
                   semaphore, groups, idx, valid_groups, exit_kind, existing_profs,
                   pre_rebuild>>
    /\ UNCHANGED <<rq_vars, p_vars, engine_vars, lock_vars>>

\* search_professors.py:95-104, 60: the session is closed, the rows are assigned
\* to _professors_cache, the lock is released and the cache returned
ReloadAssigns(c) ==
    /\ call_pc[c] = "assign"
    /\ professors_cache' = all_professors[c]
    /\ all_professors' = [all_professors EXCEPT ![c] = {}]
    /\ call_pc' = [call_pc EXCEPT ![c] = "none"]
    /\ cache_lock' = Free
    /\ Returns(c)
    /\ UNCHANGED <<store_vars, CACHE_UPDATE_ENABLED, semaphore, groups, idx,
                   valid_groups, exit_kind, existing_profs, pre_rebuild>>
    /\ UNCHANGED <<rq_vars, p_vars, engine_vars, lock_vars>>

\* search_professors.py:126-128: invalidate_professors_cache with the lock free:
\* the lock is taken, the cache emptied and the lock released without a suspension
InvalidateCache(c) ==
    /\ call_pc[c] = "none"
    /\ cache_lock = Free
    /\ professors_cache' = {}
    /\ UNCHANGED <<store_vars, CACHE_UPDATE_ENABLED, cache_lock, call_pc, all_professors, run_vars>>
    /\ UNCHANGED <<rq_vars, p_vars, engine_vars, lock_vars>>

\* search_professors.py:126: the lock is held: wait for it
InvalidateWaits(c) ==
    /\ call_pc[c] = "none"
    /\ cache_lock # Free
    /\ call_pc' = [call_pc EXCEPT ![c] = "wait_invalidate"]
    /\ UNCHANGED <<store_vars, CACHE_UPDATE_ENABLED, professors_cache, cache_lock,
                   all_professors, run_vars>>
    /\ UNCHANGED <<rq_vars, p_vars, engine_vars, lock_vars>>

\* search_professors.py:126-128: the lock is granted: the cache is emptied
InvalidateLocked(c) ==
    /\ call_pc[c] = "wait_invalidate"
    /\ cache_lock = Free
    /\ professors_cache' = {}
    /\ call_pc' = [call_pc EXCEPT ![c] = "none"]
    /\ UNCHANGED <<store_vars, CACHE_UPDATE_ENABLED, cache_lock, all_professors, run_vars>>
    /\ UNCHANGED <<rq_vars, p_vars, engine_vars, lock_vars>>

\* search_professors.py:77-78, 91-96: update_professors_cache with the lock free
\* and the gate open: the lock is taken and the select awaited, whatever the
\* cache holds.  With the gate closed the call returns at line 92: no step.
UpdateStarts(c) ==
    /\ call_pc[c] = "none"
    /\ cache_lock = Free
    /\ ~GateClosed
    /\ cache_lock' = c
    /\ call_pc' = [call_pc EXCEPT ![c] = "update_select"]
    /\ UNCHANGED <<store_vars, CACHE_UPDATE_ENABLED, professors_cache, all_professors, run_vars>>
    /\ UNCHANGED <<rq_vars, p_vars, engine_vars, lock_vars>>

\* search_professors.py:77: the lock is held: wait for it
UpdateWaits(c) ==
    /\ call_pc[c] = "none"
    /\ cache_lock # Free
    /\ call_pc' = [call_pc EXCEPT ![c] = "wait_update"]
    /\ UNCHANGED <<store_vars, CACHE_UPDATE_ENABLED, professors_cache, cache_lock,
                   all_professors, run_vars>>
    /\ UNCHANGED <<rq_vars, p_vars, engine_vars, lock_vars>>

\* search_professors.py:77-78, 91-96: the lock is granted: with the gate closed
\* the call returns, else the select is awaited
UpdateLocked(c) ==
    /\ call_pc[c] = "wait_update"
    /\ cache_lock = Free
    /\ IF GateClosed
          THEN /\ call_pc' = [call_pc EXCEPT ![c] = "none"]
               /\ UNCHANGED cache_lock
          ELSE /\ call_pc' = [call_pc EXCEPT ![c] = "update_select"]
               /\ cache_lock' = c
    /\ UNCHANGED <<store_vars, CACHE_UPDATE_ENABLED, professors_cache, all_professors, run_vars>>
    /\ UNCHANGED <<rq_vars, p_vars, engine_vars, lock_vars>>

\* search_professors.py:96-97: the select of the forced update
UpdateSelects(c) ==
    /\ call_pc[c] = "update_select"
    /\ all_professors' = [all_professors EXCEPT ![c] = db.Professor]
    /\ call_pc' = [call_pc EXCEPT ![c] = "update_assign"]
    /\ UNCHANGED <<store_vars, CACHE_UPDATE_ENABLED, professors_cache, cache_lock, run_vars>>
    /\ UNCHANGED <<rq_vars, p_vars, engine_vars, lock_vars>>

\* search_professors.py:106-108: the select fails: re-raised, the lock released
UpdateFails(c) ==
    /\ call_pc[c] = "update_select"
    /\ call_pc' = [call_pc EXCEPT ![c] = "none"]
    /\ cache_lock' = Free
    /\ UNCHANGED <<store_vars, CACHE_UPDATE_ENABLED, professors_cache, all_professors, run_vars>>
    /\ UNCHANGED <<rq_vars, p_vars, engine_vars, lock_vars>>

\* search_professors.py:99-104: the rows are assigned to _professors_cache and
\* the lock is released
UpdateAssigns(c) ==
    /\ call_pc[c] = "update_assign"
    /\ professors_cache' = all_professors[c]
    /\ all_professors' = [all_professors EXCEPT ![c] = {}]
    /\ call_pc' = [call_pc EXCEPT ![c] = "none"]
    /\ cache_lock' = Free
    /\ UNCHANGED <<store_vars, CACHE_UPDATE_ENABLED, run_vars>>
    /\ UNCHANGED <<rq_vars, p_vars, engine_vars, lock_vars>>

-----------------------------------------------------------------------------
(* run_full_sync *)

Active(r) == pc[r] \notin {"idle", "done", "raised"}

\* a GET of the run's client is in flight, or the delay after it is running
InFlight(r) == pc[r] \in {"fetch_groups", "fetch_timetable"}

\* the group of the current loop iteration
CurrentGroup(r) == groups[r][idx[r]]

\* the loop goes on with the next group, or is over
NextIteration(r) ==
    /\ idx' = [idx EXCEPT ![r] = @ + 1]
    /\ pc' = [pc EXCEPT ![r] = IF idx[r] < Len(groups[r]) THEN "ensure" ELSE "delete_groups"]

\* worker.py:248-252: a trigger starts a run: client and session are created and
\* the GET of the catalog is issued through the semaphore of this client
\* (fetcher.py:44, 86: one Semaphore per TimetableClient).  Nothing of
\* sync_lock.py is called on the way (handlers/sync.py:118, auto_sync.py:77).
StartRun(r) ==
    /\ pc[r] = "idle"
    /\ semaphore[r] > 0
    /\ pc' = [pc EXCEPT ![r] = "fetch_groups"]
    /\ semaphore' = [semaphore EXCEPT ![r] = @ - 1]
    /\ UNCHANGED <<store_vars, cache_vars, groups, idx, valid_groups, exit_kind,
                   existing_profs, pre_rebuild>>
    /\ UNCHANGED <<rq_vars, p_vars, engine_vars, lock_vars>>

\* worker.py:252, 347-349: fetch_groups raises after its retries: logged, re-raised
FetchGroupsRaises(r) ==
    /\ pc[r] = "fetch_groups"
    /\ semaphore' = [semaphore EXCEPT ![r] = @ + 1]
    /\ exit_kind' = [exit_kind EXCEPT ![r] = "raise"]
    /\ pc' = [pc EXCEPT ![r] = "close"]
    /\ UNCHANGED <<store_vars, cache_vars, groups, idx, valid_groups, existing_profs,
                   pre_rebuild>>
    /\ UNCHANGED <<rq_vars, p_vars, engine_vars, lock_vars>>

\* worker.py:253-257: the catalog is empty: return
FetchGroupsEmpty(r) ==
    /\ pc[r] = "fetch_groups"
    /\ semaphore' = [semaphore EXCEPT ![r] = @ + 1]
    /\ exit_kind' = [exit_kind EXCEPT ![r] = "return"]
    /\ pc' = [pc EXCEPT ![r] = "close"]
    /\ UNCHANGED <<store_vars, cache_vars, groups, idx, valid_groups, existing_profs,
                   pre_rebuild>>
    /\ UNCHANGED <<rq_vars, p_vars, engine_vars, lock_vars>>

\* worker.py:253-261: a catalog with groups: the loop starts
FetchGroupsOk(r) ==
    /\ pc[r] = "fetch_groups"
    /\ semaphore' = [semaphore EXCEPT ![r] = @ + 1]
    /\ \E g \in GroupNames : groups' = [groups EXCEPT ![r] = <<g>>]
    /\ idx' = [idx EXCEPT ![r] = 1]
    /\ valid_groups' = [valid_groups EXCEPT ![r] = {}]
    /\ pc' = [pc EXCEPT ![r] = "ensure"]
    /\ UNCHANGED <<store_vars, cache_vars, exit_kind, existing_profs, pre_rebuild>>
    /\ UNCHANGED <<rq_vars, p_vars, engine_vars, lock_vars>>

\* worker.py:271-273 (ensure_faculty_and_group, 66-72): the Group row is looked up
\* and, when missing, added and flushed; the GET of the timetable is issued
EnsureGroup(r) ==
    /\ pc[r] = "ensure"
    /\ semaphore[r] > 0
    /\ db' = [db EXCEPT !.Group = @ \cup {CurrentGroup(r)}]
    /\ semaphore' = [semaphore EXCEPT ![r] = @ - 1]
    /\ pc' = [pc EXCEPT ![r] = "fetch_timetable"]
    /\ UNCHANGED <<committed, cache_vars, groups, idx, valid_groups, exit_kind,
                   existing_profs, pre_rebuild>>
    /\ UNCHANGED <<rq_vars, p_vars, engine_vars, lock_vars>>

\* worker.py:274-281: the remote has no schedule for the group, or the document
\* gives no records: continue, without commit and without rollback
GroupWithoutSchedule(r) ==
    /\ pc[r] = "fetch_timetable"
    /\ semaphore' = [semaphore EXCEPT ![r] = @ + 1]
    /\ NextIteration(r)
    /\ UNCHANGED <<store_vars, cache_vars, groups, valid_groups, exit_kind,
                   existing_profs, pre_rebuild>>
    /\ UNCHANGED <<rq_vars, p_vars, engine_vars, lock_vars>>

\* worker.py:278-287 (upsert_lessons_for_group, 119-147): the Lesson rows of the
\* group are deleted, the records inserted, the group is valid, commit
GroupSynced(r) ==
    /\ pc[r] = "fetch_timetable"
    /\ semaphore' = [semaphore EXCEPT ![r] = @ + 1]
    /\ \E recs \in (SUBSET RecordSets(CurrentGroup(r))) \ {{}} :
          /\ db' = [db EXCEPT !.Lesson =
                        {l \in @ : l.group # CurrentGroup(r)} \cup recs]
          /\ committed' = db'
    /\ valid_groups' = [valid_groups EXCEPT ![r] = @ \cup {CurrentGroup(r)}]
    /\ NextIteration(r)
    /\ UNCHANGED <<cache_vars, groups, exit_kind, existing_profs, pre_rebuild>>
    /\ UNCHANGED <<rq_vars, p_vars, engine_vars, lock_vars>>

\* worker.py:289-292: the fetch, the normalizer or the upsert raises: rollback,
\* log, next group
GroupFails(r) ==
    /\ pc[r] = "fetch_timetable"
    /\ semaphore' = [semaphore EXCEPT ![r] = @ + 1]
    /\ db' = committed
    /\ NextIteration(r)
    /\ UNCHANGED <<committed, cache_vars, groups, valid_groups, exit_kind,
                   existing_profs, pre_rebuild>>
    /\ UNCHANGED <<rq_vars, p_vars, engine_vars, lock_vars>>

\* worker.py:296-306: every Group not in valid_groups is deleted with its Lessons;
\* commit
DeleteGroups(r) ==
    /\ pc[r] = "delete_groups"
    /\ db' = [db EXCEPT !.Group = @ \cap valid_groups[r],
                        !.Lesson = {l \in @ : l.group \notin (db.Group \ valid_groups[r])}]
    /\ committed' = db'
    /\ pc' = [pc EXCEPT ![r] = "disable"]
    /\ UNCHANGED <<cache_vars, semaphore, groups, idx, valid_groups, exit_kind,
                   existing_profs, pre_rebuild>>
    /\ UNCHANGED <<rq_vars, p_vars, engine_vars, lock_vars>>

\* worker.py:308-310: the deletion raises: rollback, log, go on
DeleteGroupsFails(r) ==
    /\ pc[r] = "delete_groups"
    /\ db' = committed
    /\ pc' = [pc EXCEPT ![r] = "disable"]
    /\ UNCHANGED <<committed, cache_vars, semaphore, groups, idx, valid_groups,
                   exit_kind, existing_profs, pre_rebuild>>
    /\ UNCHANGED <<rq_vars, p_vars, engine_vars, lock_vars>>

\* worker.py:312-313: the gate is closed.  worker._cache_lock is taken and released
\* around the assignment without a suspension: nothing else ever holds it.
DisableCacheUpdates(r) ==
    /\ pc[r] = "disable"
    /\ CACHE_UPDATE_ENABLED' = FALSE
    /\ pre_rebuild' = [pre_rebuild EXCEPT ![r] = professors_cache]
    /\ pc' = [pc EXCEPT ![r] = "rebuild"]
    /\ UNCHANGED <<store_vars, professors_cache, cache_lock, call_pc, all_professors,
                   semaphore, groups, idx, valid_groups, exit_kind, existing_profs>>
    /\ UNCHANGED <<rq_vars, p_vars, engine_vars, lock_vars>>

\* worker.py:316 (upsert_lessons_for_professors, 170-223): all ProfessorLesson rows
\* are deleted, a Professor is created for every new name of the Lesson rows, and
\* the new ProfessorLesson rows are flushed
RebuildProfessorLessons(r) ==
    /\ pc[r] = "rebuild"
    /\ db' = [db EXCEPT !.Professor = @ \cup NamedProfessors(db),
                        !.ProfessorLesson = NamedProfessors(db)]
    /\ pc' = [pc EXCEPT ![r] = "commit_rebuild"]
    /\ UNCHANGED <<committed, cache_vars, semaphore, groups, idx, valid_groups,
                   exit_kind, existing_profs, pre_rebuild>>
    /\ UNCHANGED <<rq_vars, p_vars, engine_vars, lock_vars>>

\* worker.py:317: commit of the rebuild
CommitRebuild(r) ==
    /\ pc[r] = "commit_rebuild"
    /\ committed' = db
    /\ pc' = [pc EXCEPT ![r] = "cleanup"]
    /\ UNCHANGED <<db, cache_vars, semaphore, groups, idx, valid_groups, exit_kind,
                   existing_profs, pre_rebuild>>
    /\ UNCHANGED <<rq_vars, p_vars, engine_vars, lock_vars>>

\* worker.py:226-229, 339-341: the rebuild or its commit raises: rollback, log; the
\* error is not re-raised and existing_profs stays unbound
RebuildFails(r) ==
    /\ pc[r] \in {"rebuild", "commit_rebuild"}
    /\ db' = committed
    /\ pc' = [pc EXCEPT ![r] = "enable"]
    /\ UNCHANGED <<committed, cache_vars, semaphore, groups, idx, valid_groups,
                   exit_kind, existing_profs, pre_rebuild>>
    /\ UNCHANGED <<rq_vars, p_vars, engine_vars, lock_vars>>

\* worker.py:321-333: every Professor without ProfessorLesson rows is deleted; commit
DeleteProfessors(r) ==
    /\ pc[r] = "cleanup"
    /\ db' = [db EXCEPT !.Professor = @ \cap db.ProfessorLesson]
    /\ committed' = db'
    /\ existing_profs' = [existing_profs EXCEPT ![r] = TRUE]
    /\ pc' = [pc EXCEPT ![r] = "enable"]
    /\ UNCHANGED <<cache_vars, semaphore, groups, idx, valid_groups, exit_kind, pre_rebuild>>
    /\ UNCHANGED <<rq_vars, p_vars, engine_vars, lock_vars>>

\* worker.py:335-337: the cleanup raises, before or after existing_profs is bound:
\* rollback, log, go on
DeleteProfessorsFails(r) ==
    /\ pc[r] = "cleanup"
    /\ db' = committed
    /\ \E bound \in BOOLEAN : existing_profs' = [existing_profs EXCEPT ![r] = bound]
    /\ pc' = [pc EXCEPT ![r] = "enable"]
    /\ UNCHANGED <<committed, cache_vars, semaphore, groups, idx, valid_groups,
                   exit_kind, pre_rebuild>>
    /\ UNCHANGED <<rq_vars, p_vars, engine_vars, lock_vars>>

\* the gate left closed
GateAfterRebuild_LeftClosed == CACHE_UPDATE_ENABLED

\* worker.py:343-345: finally: CACHE_UPDATE_ENABLED = True
GateAfterRebuild == TRUE

EnableCacheUpdates(r) ==
    /\ pc[r] = "enable"
    /\ CACHE_UPDATE_ENABLED' = GateAfterRebuild
    /\ pre_rebuild' = [pre_rebuild EXCEPT ![r] = {}]
    /\ pc' = [pc EXCEPT ![r] = "close"]
    /\ UNCHANGED <<store_vars, professors_cache, cache_lock, call_pc, all_professors,
                   semaphore, groups, idx, valid_groups, exit_kind, existing_profs>>
    /\ UNCHANGED <<rq_vars, p_vars, engine_vars, lock_vars>>

\* worker.py:351-352: finally: the client is closed; get_cached_professors is next
CloseClient(r) ==
    /\ pc[r] = "close"
    /\ pc' = [pc EXCEPT ![r] = "final_get"]
    /\ UNCHANGED <<store_vars, cache_vars, semaphore, groups, idx, valid_groups,
                   exit_kind, existing_profs, pre_rebuild>>
    /\ UNCHANGED <<rq_vars, p_vars, engine_vars, lock_vars>>

\* worker.py:356-358: the closing log lines read existing_profs: unbound after a
\* failed rebuild, they raise UnboundLocalError
LogSummary(r) ==
    /\ pc[r] = "log"
    /\ pc' = [pc EXCEPT ![r] = IF existing_profs[r] THEN "refresh" ELSE "raised"]
    /\ UNCHANGED <<store_vars, cache_vars, semaphore, groups, idx, valid_groups,
                   exit_kind, existing_profs, pre_rebuild>>
    /\ UNCHANGED <<rq_vars, p_vars, engine_vars, lock_vars>>

\* worker.py:360: refresh_all_keyboards, and the run is over
RefreshKeyboards(r) ==
    /\ pc[r] = "refresh"
    /\ pc' = [pc EXCEPT ![r] = "done"]
    /\ UNCHANGED <<store_vars, cache_vars, semaphore, groups, idx, valid_groups,
                   exit_kind, existing_profs, pre_rebuild>>
    /\ UNCHANGED <<rq_vars, p_vars, engine_vars, lock_vars>>

\* handlers/sync.py:118-129, auto_sync.py:75-80: the caller takes the result or the
\* error; the trigger can fire again
\* _scheduler_loop with "except Exception" left out: a run that raises ends the loop
AfterRun_LoopEnds(r) ==
    IF r = "scheduler" /\ pc[r] = "raised" THEN "ended" ELSE "idle"

\* auto_sync.py:75-80, 60-71: the run returned, or it raised and the error is
\* caught and logged: the loop goes round and sleeps until the next 03:00;
\* handlers/sync.py:118-129: the handler answers and the button can be pressed again
AfterRun(r) == "idle"

RunOver(r) ==
    /\ pc[r] \in {"done", "raised"}
    /\ pc' = [pc EXCEPT ![r] = AfterRun(r)]
    /\ groups' = [groups EXCEPT ![r] = <<>>]
    /\ idx' = [idx EXCEPT ![r] = 0]
    /\ valid_groups' = [valid_groups EXCEPT ![r] = {}]
    /\ exit_kind' = [exit_kind EXCEPT ![r] = "normal"]
    /\ existing_profs' = [existing_profs EXCEPT ![r] = FALSE]
    /\ UNCHANGED <<store_vars, cache_vars, semaphore, pre_rebuild>>
    /\ UNCHANGED <<rq_vars, p_vars, engine_vars, lock_vars>>

SyncIdle ==
    /\ db = EmptyStore
    /\ committed = EmptyStore
    /\ CACHE_UPDATE_ENABLED = TRUE
    /\ professors_cache = {}
    /\ cache_lock = Free
    /\ call_pc = [c \in Callers |-> "none"]
    /\ all_professors = [c \in Callers |-> {}]
    /\ pc = [r \in Runs |-> "idle"]
    /\ semaphore = [r \in Runs |-> REQUEST_CONCURRENCY]
    /\ groups = [r \in Runs |-> <<>>]
    /\ idx = [r \in Runs |-> 0]
    /\ valid_groups = [r \in Runs |-> {}]
    /\ exit_kind = [r \in Runs |-> "normal"]
    /\ existing_profs = [r \in Runs |-> FALSE]
    /\ pre_rebuild = [r \in Runs |-> {}]

-----------------------------------------------------------------------------
(* The normalizer as a function of the raw timetable *)

\* a raw timetable document
Doc(lesson_time_data, type_fields, conts) ==
    [lessonTimeData |-> lesson_time_data,
     types |-> type_fields.types, type |-> type_fields.type,
     typesName |-> type_fields.typesName,
     lessonsContainers |-> conts]

\* lesson_time_map and ttype of a document (parser.py:148-152)
DocHeader(doc) ==
    [lesson_time_map |-> parse_lesson_time_data(doc.lessonTimeData), ttype |-> TypeOf(doc)]

\* parser.py:155-195: the containers of one document, in order; acc holds
\* seen_lessons and the records so far
RECURSIVE ExtractContainers(_, _, _)
ExtractContainers(conts, tt, acc) ==
    IF conts = <<>> THEN acc
    ELSE LET cont == Head(conts)
             key == LessonKey(cont, tt)
         IN ExtractContainers(Tail(conts), tt,
                IF IsSeen(key, acc.seen) THEN acc
                ELSE [seen |-> acc.seen \cup {key},
                      recs |-> Append(acc.recs, RecordOf(cont, tt.ttype))])

\* parser.py:147-195: the documents of the call, in order
RECURSIVE ExtractDocuments(_, _)
ExtractDocuments(docs, acc) ==
    IF docs = <<>> THEN acc
    ELSE ExtractDocuments(Tail(docs),
             ExtractContainers(Head(docs).lessonsContainers, DocHeader(Head(docs)), acc))

\* parser.py:139-197: the records of a raw timetable (a dict: one document, or a
\* list of documents), without group_name, which is the same in all of them
extract_lessons_from_timetable_json(timetable_json) ==
    ExtractDocuments(timetable_json.docs, [seen |-> {}, recs |-> <<>>]).recs

-----------------------------------------------------------------------------
(* The remote, as the entry points of worker.py see it *)

Classes == [types |-> None, type |-> None, typesName |-> None]
Retake == [types |-> "retake", type |-> None, typesName |-> None]

Bells1 == <<"08:30-10:05", "10:15-11:50">>
Bells2 == <<"09:00-10:35", "10:45-12:20">>

\* a lesson with subject, instructor and room
MathLesson ==
    [lessonNumber |-> 0, weekDay |-> 1, week_day |-> NoneInt, weekMark |-> "every",
     texts |-> <<"", "Math", "Ivanov I.I.", "101">>]

\* a lesson whose subject is JSON null
NullSubjectLesson ==
    [lessonNumber |-> 0, weekDay |-> 1, week_day |-> NoneInt, weekMark |-> "every",
     texts |-> <<"", None, "Ivanov I.I.", "101">>]

\* {"message": ...}: the remote has no schedule (also the 404 marker of
\* fetcher.py:97)
Message == [shape |-> "message", docs |-> <<>>]

\* a document without lessons
EmptyTimetable == [shape |-> "dict", docs |-> <<Doc(Bells1, Classes, <<>>)>>]

\* one document, one lesson
OneLesson == [shape |-> "dict", docs |-> <<Doc(Bells1, Classes, <<MathLesson>>)>>]

\* a list of two documents of different schedule types
TwoTypes ==
    [shape |-> "list", docs |-> <<Doc(Bells1, Classes, <<MathLesson>>),
                                  Doc(Bells1, Retake, <<MathLesson>>)>>]

\* a list of two documents of one type with different bell schedules
TwoBells ==
    [shape |-> "list", docs |-> <<Doc(Bells1, Classes, <<MathLesson>>),
                                  Doc(Bells2, Classes, <<MathLesson>>)>>]

\* one document, one lesson without subject
NullSubject == [shape |-> "dict", docs |-> <<Doc(Bells1, Classes, <<NullSubjectLesson>>)>>]

\* what fetch_timetable_for_group returns
Timetables == {Message, EmptyTimetable, OneLesson, TwoTypes, TwoBells, NullSubject}

\* request_with_retry raised (fetcher.py:110, 117)
FetchError == [shape |-> "raise", docs |-> <<>>]

\* {"groups": [{groupName, facultyName}, ...]}: what fetch_groups returns
CatalogEntry(group_name, faculty_name) == [groupName |-> group_name, facultyName |-> faculty_name]

Catalogs ==
    { <<>>,
      <<CatalogEntry("g1", "A")>>,
      <<CatalogEntry("g1", "B")>>,
      <<CatalogEntry("g1", "A"), CatalogEntry("g2", "A")>> }

\* the group run_full_sync_for_group is called for
EngineGroups == {"g1"}

FacultyNames == {"A", "B"}

-----------------------------------------------------------------------------
(* The store of the entry points: tables and one session's transaction *)

\* models.py: faculties (name), groups (group_name, faculty_id), lessons (a bag:
\* rows equal in every column can coexist when a column is NULL), professors
\* (name), professor_lessons.  Rows are named by their unique name instead of id.
NoRows ==
    [Faculty |-> {}, Group |-> {}, Lesson |-> EmptyBag, Professor |-> {},
     ProfessorLesson |-> EmptyBag]

\* a session: what it sees (tx.work) and what is committed (tx.durable)
Begin(st) == [work |-> st, durable |-> st]
Commit(tx) == [work |-> tx.work, durable |-> tx.work]
\* a rollback that keeps the work of the session and makes it durable
Rollback_KeepsWork(tx) == [work |-> tx.work, durable |-> tx.work]

Rollback(tx) == [work |-> tx.durable, durable |-> tx.durable]

\* Lesson(group_id=..., weekday=rec.get("weekday"), ...) (worker.py:134-143)
LessonRow(group_name, rec) ==
    [group_id |-> group_name, weekday |-> rec.weekday, lesson_number |-> rec.lesson_number,
     subject |-> rec.subject, professors |-> rec.professors, rooms |-> rec.rooms,
     week_mark |-> rec.week_mark, type |-> rec.type]

\* a column of uq_lesson_unique is NULL: SQLite lets such a row repeat
HasNullColumn(row) ==
    \/ row.weekday = NoneInt
    \/ row.subject = None \/ row.professors = None \/ row.rooms = None
    \/ row.week_mark = None

\* the rows of a bag that satisfy keep
KeepRows(lessons, keepers) ==
    [row \in (BagToSet(lessons) \cap keepers) |-> lessons[row]]

\* the Lesson rows of a group
LessonsOf(st, group_name) ==
    KeepRows(st.Lesson, {row \in BagToSet(st.Lesson) : row.group_id = group_name})

\* the INSERTs of a flush, row by row: uq_lesson_unique (models.py:124-130)
\* refuses a row equal to a stored one in all eight columns, none of them NULL
RECURSIVE InsertLessons(_, _)
InsertLessons(lessons, rows) ==
    IF rows = <<>> THEN [ok |-> TRUE, lessons |-> lessons]
    ELSE IF ~HasNullColumn(Head(rows)) /\ BagIn(Head(rows), lessons)
         THEN [ok |-> FALSE, lessons |-> lessons]
         ELSE InsertLessons(lessons (+) SetToBag({Head(rows)}), Tail(rows))

GroupNamed(st, group_name) == {g \in st.Group : g.group_name = group_name}

\* ensure_faculty_and_group that moves a Group found to the faculty it is called with
ensure_faculty_and_group_Reassigns(st, faculty_name, group_name) ==
    LET faculties == IF TruthyStr(faculty_name) THEN st.Faculty \cup {faculty_name}
                     ELSE st.Faculty
        faculty_id == IF TruthyStr(faculty_name) THEN faculty_name ELSE None
    IN [st EXCEPT !.Faculty = faculties,
                  !.Group = (@ \ GroupNamed(st, group_name))
                               \cup {[group_name |-> group_name,
                                      faculty_id |-> faculty_id]}]

\* worker.py:39-72: get or create the Faculty by name, get or create the Group by
\* name; a Group found keeps the faculty it has
ensure_faculty_and_group(st, faculty_name, group_name) ==
    LET faculties == IF TruthyStr(faculty_name) THEN st.Faculty \cup {faculty_name}
                     ELSE st.Faculty
        faculty_id == IF TruthyStr(faculty_name) THEN faculty_name ELSE None
    IN [st EXCEPT !.Faculty = faculties,
                  !.Group = IF GroupNamed(st, group_name) # {} THEN @
                            ELSE @ \cup {[group_name |-> group_name,
                                          faculty_id |-> faculty_id]}]

\* the group and its lessons deleted (worker.py:96-97, 302-303, 440-441)
\* WithoutGroup with a cascade the schema does not have: the derived rows go too
WithoutGroup_WithDerivedRows(st, group_name) ==
    [st EXCEPT !.Group = @ \ GroupNamed(st, group_name),
               !.Lesson = KeepRows(@, {row \in BagToSet(@) : row.group_id # group_name}),
               !.ProfessorLesson = EmptyBag]

WithoutGroup(st, group_name) ==
    [st EXCEPT !.Group = @ \ GroupNamed(st, group_name),
               !.Lesson = KeepRows(@, {row \in BagToSet(@) : row.group_id # group_name})]

\* delete_group_if_exists without line 96: the group goes, its lessons stay
delete_group_if_exists_KeepsLessons(tx, group_name) ==
    IF GroupNamed(tx.work, group_name) = {} THEN tx
    ELSE Commit([tx EXCEPT !.work.Group = @ \ GroupNamed(tx.work, group_name)])

\* worker.py:75-99: no such group: nothing happens, not even a commit; else its
\* lessons and the group are deleted and the session commits
delete_group_if_exists(tx, group_name) ==
    IF GroupNamed(tx.work, group_name) = {} THEN tx
    ELSE Commit([tx EXCEPT !.work = WithoutGroup(@, group_name)])

\* upsert_lessons_for_group without line 128: the delete is not limited to the
\* type and takes every row of the group
upsert_lessons_for_group_AllTypes(st, group_name, recs) ==
    IF recs = <<>> THEN [st |-> st, pending |-> <<>>, count |-> 0]
    ELSE [st |-> [st EXCEPT !.Lesson =
                     KeepRows(@, {row \in BagToSet(@) : row.group_id # group_name})],
          pending |-> [i \in 1..Len(recs) |-> LessonRow(group_name, recs[i])],
          count |-> Len(recs)]

\* worker.py:102-152: no records: nothing happens; else the group's rows of the
\* type of the first record are deleted and the records are added to the session.
\* The rows are inserted by the flush of the commit that follows.
upsert_lessons_for_group(st, group_name, recs) ==
    IF recs = <<>> THEN [st |-> st, pending |-> <<>>, count |-> 0]
    ELSE LET type_name == recs[1].type
         IN [st |-> [st EXCEPT !.Lesson =
                        KeepRows(@, {row \in BagToSet(@) :
                                        ~(row.group_id = group_name /\ row.type = type_name)})],
             pending |-> [i \in 1..Len(recs) |-> LessonRow(group_name, recs[i])],
             count |-> Len(recs)]

\* await session.commit() after upsert_lessons_for_group: flush, then commit; an
\* IntegrityError of the flush leaves the transaction to be rolled back
CommitLessons(tx, up) ==
    LET ins == InsertLessons(up.st.Lesson, up.pending)
    IN IF ins.ok
          THEN [ok |-> TRUE, tx |-> Commit([tx EXCEPT !.work = [up.st EXCEPT !.Lesson = ins.lessons]])]
          ELSE [ok |-> FALSE, tx |-> Rollback(tx)]

-----------------------------------------------------------------------------
(* How a call ends *)

Returned(value, refreshed) ==
    [kind |-> "returned", value |-> value, exc |-> "none", refreshed |-> refreshed]

Raised(exc) == [kind |-> "raised", value |-> NoneInt, exc |-> exc, refreshed |-> FALSE]

\* nothing logged
NoLog == [valid |-> {}, synced |-> {}]

NoResult == [kind |-> "none", value |-> NoneInt, exc |-> "none", refreshed |-> FALSE]

\* the outcome of a call: the committed store it leaves and how it ended.  The
\* session is closed on the way out, which discards what was not committed.
Outcome(tx, res) == [store |-> tx.durable, result |-> res, log |-> NoLog, closed |-> TRUE]

\* run_full_sync_for_faculty has no finally block (worker.py:383-452): an
\* exception leaves it before client.close() at line 444
LeftOpen(out) == [out EXCEPT !.closed = FALSE]

\* an outcome after a loop over groups: valid_groups as the loop left it, and the
\* groups whose commit went through (the log lines at worker.py:287, 424)
Logged(out, loop) == [out EXCEPT !.log = [valid |-> loop.valid, synced |-> loop.synced]]

\* the catalog entries with this group name, in order
EntriesNamed(catalog, group_name) ==
    SelectSeq(catalog, LAMBDA g : g.groupName = group_name)

-----------------------------------------------------------------------------
(* run_full_sync_for_group *)

\* worker.py:483-516.  c: the arguments and what the remote answers:
\* c.group_name, c.catalog (CatalogError or the groups), c.timetable (per group)
run_full_sync_for_group(st, c) ==
    LET tx0 == Begin(st)
        group_info == EntriesNamed(c.catalog, c.group_name)
    IN IF c.catalog_fails THEN Outcome(tx0, Raised("RequestError"))
       ELSE IF group_info = <<>>
       THEN Outcome(delete_group_if_exists(tx0, c.group_name), Returned(0, FALSE))
       ELSE
         LET tx1 == [tx0 EXCEPT !.work =
                        ensure_faculty_and_group(@, group_info[1].facultyName, c.group_name)]
             tt_json == c.timetable[c.group_name]
             recs == extract_lessons_from_timetable_json(tt_json)
             up == upsert_lessons_for_group(tx1.work, c.group_name, recs)
             done == CommitLessons(tx1, up)
         IN IF tt_json = FetchError THEN Outcome(tx1, Raised("RequestError"))
            ELSE IF tt_json = Message \/ recs = <<>>
            THEN Outcome(delete_group_if_exists(tx1, c.group_name), Returned(0, FALSE))
            ELSE IF ~done.ok THEN Outcome(done.tx, Raised("IntegrityError"))
            ELSE Logged(Outcome(done.tx, Returned(up.count, TRUE)),
                        [valid |-> {}, synced |-> {c.group_name}])

-----------------------------------------------------------------------------
(* run_full_sync_for_faculty *)

Unbound == "unbound"

\* if limit_groups and idx >= limit_groups: break (idx counts from 0)
CutOff(limit_groups, i) == TruthyInt(limit_groups) /\ i >= limit_groups

\* worker.py:432-433: select(Faculty).where(Faculty.name == faculty_name).first()
FacultyNamed(st, faculty_name) ==
    IF faculty_name \in st.Faculty THEN faculty_name ELSE None

\* worker.py:401-433: the loop over faculty_groups from position i (from 0) on;
\* acc holds the transaction, valid_groups and faculty_obj
RECURSIVE FacultyLoop(_, _, _, _)
FacultyLoop(gs, i, c, acc) ==
    IF gs = <<>> \/ CutOff(c.limit_groups, i) THEN acc
    ELSE
      LET group_name == Head(gs).groupName
          tx1 == [acc.tx EXCEPT !.work =
                     ensure_faculty_and_group(@, c.faculty_name, group_name)]
          tt_json == c.timetable[group_name]
          recs == extract_lessons_from_timetable_json(tt_json)
          up == upsert_lessons_for_group(tx1.work, group_name, recs)
          done == CommitLessons(tx1, up)
          after ==
            IF tt_json = FetchError
               \* except Exception: rollback (427-430), then the faculty is looked up
               THEN [tx |-> Rollback(tx1), valid |-> acc.valid, synced |-> acc.synced,
                     faculty_obj |-> FacultyNamed(Rollback(tx1).work, c.faculty_name)]
            ELSE IF tt_json = Message
               \* continue (414-416): lines 432-433 are skipped
               THEN [tx |-> tx1, valid |-> acc.valid, synced |-> acc.synced,
                     faculty_obj |-> acc.faculty_obj]
            ELSE IF ~done.ok
               THEN [tx |-> done.tx, valid |-> acc.valid, synced |-> acc.synced,
                     faculty_obj |-> FacultyNamed(done.tx.work, c.faculty_name)]
            ELSE [tx |-> done.tx, valid |-> acc.valid \cup {group_name},
                  synced |-> acc.synced \cup {group_name},
                  faculty_obj |-> FacultyNamed(done.tx.work, c.faculty_name)]
      IN FacultyLoop(Tail(gs), i + 1, c, after)

\* WithoutGroups that deletes the faculties of the groups as well
WithoutGroups_WithFaculties(st, doomed) ==
    [st EXCEPT !.Group = @ \ doomed,
               !.Faculty = @ \ {g.faculty_id : g \in doomed},
               !.Lesson = KeepRows(@, {row \in BagToSet(@) :
                                          \A g \in doomed : row.group_id # g.group_name})]

\* the groups st holds that satisfy doomed, deleted with their lessons
WithoutGroups(st, doomed) ==
    [st EXCEPT !.Group = @ \ doomed,
               !.Lesson = KeepRows(@, {row \in BagToSet(@) :
                                          \A g \in doomed : row.group_id # g.group_name})]

\* worker.py:363-452
run_full_sync_for_faculty(st, c) ==
    LET tx0 == Begin(st)
        faculty_groups == SelectSeq(c.catalog, LAMBDA g : g.facultyName = c.faculty_name)
        loop == FacultyLoop(faculty_groups, 0, c,
                            [tx |-> tx0, valid |-> {}, synced |-> {}, faculty_obj |-> Unbound])
        existing == {g \in loop.tx.work.Group : g.faculty_id = loop.faculty_obj}
        stale == {g \in existing : g.group_name \notin loop.valid}
    IN IF c.catalog_fails THEN LeftOpen(Outcome(tx0, Raised("RequestError")))
       ELSE IF c.catalog = <<>> \/ faculty_groups = <<>>
          THEN Outcome(tx0, Returned(0, FALSE))
       ELSE IF loop.faculty_obj = Unbound
          THEN LeftOpen(Logged(Outcome(loop.tx, Raised("UnboundLocalError")), loop))
       ELSE IF loop.faculty_obj = None
          \* faculty_obj.id
          THEN LeftOpen(Logged(Outcome(loop.tx, Raised("AttributeError")), loop))
       ELSE Logged(Outcome(Commit([loop.tx EXCEPT !.work = WithoutGroups(@, stale)]),
                           Returned(Cardinality(loop.valid), TRUE)), loop)

-----------------------------------------------------------------------------
(* run_full_sync, one call as a whole *)

\* worker.py:261-292: the loop over groups from position i (from 0) on; acc holds
\* the transaction and valid_groups
RECURSIVE GroupLoop(_, _, _, _)
GroupLoop(gs, i, c, acc) ==
    IF gs = <<>> \/ CutOff(c.limit_groups, i) THEN acc
    ELSE
      LET group_name == Head(gs).groupName
          tx1 == [acc.tx EXCEPT !.work =
                     ensure_faculty_and_group(@, Head(gs).facultyName, group_name)]
          tt_json == c.timetable[group_name]
          recs == extract_lessons_from_timetable_json(tt_json)
          up == upsert_lessons_for_group(tx1.work, group_name, recs)
          done == CommitLessons(tx1, up)
          after ==
            IF tt_json = FetchError
               THEN [tx |-> Rollback(tx1), valid |-> acc.valid, synced |-> acc.synced]
            ELSE IF tt_json = Message \/ recs = <<>>
               \* continue (274-281): nothing committed, nothing rolled back
               THEN [tx |-> tx1, valid |-> acc.valid, synced |-> acc.synced]
            \* valid_groups.add(group_name) comes before the commit (284, 286)
            ELSE [tx |-> done.tx, valid |-> acc.valid \cup {group_name},
                  synced |-> IF done.ok THEN acc.synced \cup {group_name} ELSE acc.synced]
      IN GroupLoop(Tail(gs), i + 1, c, after)

\* the ProfessorLesson rows of one Lesson row (worker.py:179-221)
ProfessorLessonsOf(row) ==
    IF ~TruthyStr(row.professors) THEN {}
    ELSE {[professor_id |-> prof_name, weekday |-> row.weekday,
           lesson_number |-> row.lesson_number, subject |-> row.subject,
           rooms |-> row.rooms, week_mark |-> row.week_mark] :
              prof_name \in extract_professor_names(row.professors)}

\* worker.py:177-221 without the test of added_records: the ProfessorLesson rows
\* the loops over the Lesson rows and over the names of each come to, each as
\* often as they come to it
DerivedRows(st) ==
    LET lessons == BagToSet(st.Lesson)
        derived == UNION {ProfessorLessonsOf(row) : row \in lessons}
        Sources(pl) == {row \in lessons : pl \in ProfessorLessonsOf(row)}
    IN [pl \in derived |->
           BagCardinality(KeepRows(st.Lesson, Sources(pl)))]

\* the loop without added_records: every row it comes to is added
AddedRows_EveryTime(emitted) == emitted

\* worker.py:176, 200-221: key in added_records: continue; a row is added to
\* the session the first time the loop comes to its key
AddedRows(emitted) == SetToBag(BagToSet(emitted))

\* models.py:187-191: uq_professor_lesson_unique; rows with a NULL column do
\* not collide
ViolatesProfessorLessonUnique(rows) ==
    \E pl \in BagToSet(rows) :
        /\ CopiesIn(pl, rows) > 1
        /\ None \notin {pl.subject, pl.rooms, pl.week_mark}
        /\ NoneInt \notin {pl.weekday, pl.lesson_number}

\* worker.py:155-229: all ProfessorLesson rows are deleted and built anew from the
\* Lesson rows, a Professor created for every new name; subject is NOT NULL in
\* professor_lessons (models.py:181), so a row without subject fails the flush,
\* and so do two rows equal on the unique columns.  When the flush fails the
\* session has deleted the old rows and flushed the new Professors (line 199).
upsert_lessons_for_professors(st) ==
    LET rows == AddedRows(DerivedRows(st))
        named == [st EXCEPT !.Professor = @ \cup {pl.professor_id : pl \in BagToSet(rows)}]
    IN IF \/ \E pl \in BagToSet(rows) : pl.subject = None
          \/ ViolatesProfessorLessonUnique(rows)
          THEN [ok |-> FALSE, st |-> [named EXCEPT !.ProfessorLesson = EmptyBag]]
          ELSE [ok |-> TRUE, st |-> [named EXCEPT !.ProfessorLesson = rows]]

\* worker.py:321-333: the Professors without ProfessorLesson rows are deleted
WithoutIdleProfessors(st) ==
    [st EXCEPT !.Professor = {prof \in @ : \E pl \in BagToSet(st.ProfessorLesson) : pl.professor_id = prof}]

\* worker.py:294-310: the groups not in valid_groups are deleted, or the phase
\* fails and is rolled back
DeleteStaleGroups(tx, valid, fault) ==
    IF fault = "delete_groups" THEN Rollback(tx)
    ELSE Commit([tx EXCEPT !.work =
                    WithoutGroups(@, {g \in @.Group : g.group_name \notin valid})])

\* worker.py:312-345: rebuild and cleanup; bound tells whether existing_profs got
\* a value.  A store error in the rebuild comes after the delete of line 170; the
\* session is rolled back at 226-229 and again at 339-341.
RebuildAndCleanup(tx, fault) ==
    LET built == upsert_lessons_for_professors(tx.work)
        tx1 == Commit([tx EXCEPT !.work = built.st])
        failed == IF built.ok THEN [tx EXCEPT !.work.ProfessorLesson = EmptyBag]
                  ELSE [tx EXCEPT !.work = built.st]
    IN IF fault = "rebuild" \/ ~built.ok THEN [tx |-> Rollback(failed), bound |-> FALSE]
       ELSE IF fault = "cleanup_select" THEN [tx |-> Rollback(tx1), bound |-> FALSE]
       ELSE IF fault = "cleanup_commit" THEN [tx |-> Rollback(tx1), bound |-> TRUE]
       ELSE [tx |-> Commit([tx1 EXCEPT !.work = WithoutIdleProfessors(@)]), bound |-> TRUE]

\* worker.py:232-360
run_full_sync(st, c) ==
    LET tx0 == Begin(st)
        loop == GroupLoop(c.catalog, 0, c, [tx |-> tx0, valid |-> {}, synced |-> {}])
        swept == DeleteStaleGroups(loop.tx, loop.valid, c.fault)
        rebuilt == RebuildAndCleanup(swept, c.fault)
    IN IF c.catalog_fails THEN Outcome(tx0, Raised("RequestError"))
       ELSE IF c.catalog = <<>> THEN Outcome(tx0, Returned(NoneInt, FALSE))
       \* worker.py:356-358: the log lines read existing_profs
       ELSE IF ~rebuilt.bound
          THEN Logged(Outcome(rebuilt.tx, Raised("UnboundLocalError")), loop)
       ELSE Logged(Outcome(rebuilt.tx, Returned(NoneInt, TRUE)), loop)

\* worker.py:354 with the gate open and nobody else running: an empty cache is
\* loaded from the Professor rows, any other cache is returned as it is
CacheAfterRun(cache, st) == IF cache = {} THEN st.Professor ELSE cache

-----------------------------------------------------------------------------
(* The entry points called one after the other *)

NamesIn(catalog) == {catalog[i].groupName : i \in DOMAIN catalog}

\* what fetch_timetable_for_group does for a group: every answer for the first
\* group of the catalogs, three of them for the second
AnswersFor(group_name) ==
    IF group_name = "g1" THEN Timetables \cup {FetchError}
    ELSE {Message, OneLesson, FetchError}

\* what fetch_timetable_for_group does for each of the groups asked about
Answers(names) ==
    {tts \in [names -> Timetables \cup {FetchError}] :
        \A n \in names : tts[n] \in AnswersFor(n)}

\* limit_groups: None, or a limit of one group where the catalog has more
Limits(catalog) == IF Len(catalog) > 1 THEN {NoneInt, 1} ELSE {NoneInt}

\* where the final phases of run_full_sync fail, if they do
Faults == {"none", "delete_groups", "rebuild", "cleanup_select", "cleanup_commit"}

\* the final phases fail only in calls with a catalog of one group that has a
\* lesson or no schedule
FaultsWith(catalog, tts) ==
    IF Len(catalog) = 1 /\ tts[catalog[1].groupName] \in {Message, OneLesson}
       THEN Faults ELSE {"none"}

\* the catalogs run_full_sync_for_group and run_full_sync are called with: the
\* first faculty's
CatalogsOfA ==
    {cat \in Catalogs : \A i \in DOMAIN cat : cat[i].facultyName = "A"}

NoCall ==
    [entry |-> "none", group_name |-> None, faculty_name |-> None, limit_groups |-> NoneInt,
     catalog_fails |-> FALSE, catalog |-> <<>>, timetable |-> <<>>, fault |-> "none"]

\* the calls of run_full_sync_for_group: fetch_groups fails, or answers with a
\* catalog, and then the timetable of the group is asked for when it is listed
GroupCalls ==
    {[NoCall EXCEPT !.entry = "group", !.group_name = x, !.catalog_fails = TRUE] :
        x \in EngineGroups}
    \cup UNION {
        {[NoCall EXCEPT !.entry = "group", !.group_name = x, !.catalog = cat, !.timetable = tts] :
            tts \in Answers(NamesIn(cat) \cap {x})} :
        x \in EngineGroups, cat \in CatalogsOfA}

FacultyCalls ==
    {[NoCall EXCEPT !.entry = "faculty", !.faculty_name = f, !.catalog_fails = TRUE] :
        f \in FacultyNames}
    \cup UNION {
        {[NoCall EXCEPT !.entry = "faculty", !.faculty_name = f,
                        !.catalog = cat, !.timetable = tts] :
            tts \in Answers(NamesIn(SelectSeq(cat, LAMBDA g : g.facultyName = f)))} :
        f \in FacultyNames, cat \in Catalogs}

FullCalls ==
    {[NoCall EXCEPT !.entry = "full", !.catalog_fails = TRUE]}
    \cup UNION {
        UNION {
            {[NoCall EXCEPT !.entry = "full", !.limit_groups = lim, !.catalog = cat,
                            !.timetable = tts, !.fault = fault] :
                lim \in Limits(cat), fault \in FaultsWith(cat, tts)} :
            tts \in Answers(NamesIn(cat))} :
        cat \in CatalogsOfA}

\* the frame of a call: the session is closed, so the connection sees what is
\* committed; nothing else of the process moves
EndOfCall(c, out) ==
    /\ calls < MaxCalls
    /\ calls' = calls + 1
    /\ call' = c
    /\ before' = committed
    /\ committed' = out.store
    /\ db' = out.store
    /\ result' = out.result
    /\ log' = out.log
    /\ client_closed' = out.closed
    /\ UNCHANGED <<CACHE_UPDATE_ENABLED, cache_lock, call_pc, all_professors, run_vars>>
    /\ UNCHANGED <<rq_vars, p_vars, lock_vars>>

\* handlers/sync.py:237: run_full_sync_for_group(group_name)
CallGroupSync ==
    \E c \in GroupCalls :
        /\ EndOfCall(c, run_full_sync_for_group(committed, c))
        /\ UNCHANGED professors_cache

\* handlers/sync.py:165: run_full_sync_for_faculty(faculty_name)
CallFacultySync ==
    \E c \in FacultyCalls :
        /\ EndOfCall(c, run_full_sync_for_faculty(committed, c))
        /\ UNCHANGED professors_cache

\* handlers/sync.py:118, auto_sync.py:77: run_full_sync()
CallFullSync ==
    \E c \in FullCalls :
        LET out == run_full_sync(committed, c)
        IN /\ EndOfCall(c, out)
           /\ professors_cache' = CacheAfterRun(professors_cache, out.store)

\* no call of an entry point has been made
EngineIdle ==
    /\ call = NoCall
    /\ before = NoRows
    /\ result = NoResult
    /\ log = NoLog
    /\ calls = 0
    /\ client_closed = TRUE

\* a fresh store, nothing running
EngineStart ==
    /\ EngineIdle
    /\ db = NoRows
    /\ committed = NoRows
    /\ CACHE_UPDATE_ENABLED = TRUE
    /\ professors_cache = {}
    /\ cache_lock = Free
    /\ call_pc = [c \in Callers |-> "none"]
    /\ all_professors = [c \in Callers |-> {}]
    /\ pc = [r \in Runs |-> "idle"]
    /\ semaphore = [r \in Runs |-> REQUEST_CONCURRENCY]
    /\ groups = [r \in Runs |-> <<>>]
    /\ idx = [r \in Runs |-> 0]
    /\ valid_groups = [r \in Runs |-> {}]
    /\ exit_kind = [r \in Runs |-> "normal"]
    /\ existing_profs = [r \in Runs |-> FALSE]
    /\ pre_rebuild = [r \in Runs |-> {}]

-----------------------------------------------------------------------------
(* sync_lock.py: set_sync_running, set_sync_finished, is_sync_running *)

\* the callers a sync lock is for: the three sync handlers (handlers/sync.py:84,
\* 152, 224) and the scheduler (auto_sync.py:53)
LockCallers == {"handler", "faculty_handler", "group_handler", "scheduler"}

\* sync_lock.py:16-17
is_sync_running == sync_locked

\* asyncio.Lock.release: the first waiter is woken; it takes the lock when it runs
WakeUpFirst == IF sync_waiters = <<>> THEN {} ELSE {Head(sync_waiters)}

\* sync_lock.py:6-8: await _sync_lock.acquire(): the lock is taken at once when it
\* is free and nobody waits for it; else the caller is queued and suspended
SetSyncRunning(c) ==
    /\ lk_pc[c] = "out"
    /\ IF ~sync_locked /\ sync_waiters = <<>>
          THEN /\ sync_locked' = TRUE
               /\ lk_pc' = [lk_pc EXCEPT ![c] = "in"]
               /\ UNCHANGED sync_waiters
          ELSE /\ sync_waiters' = Append(sync_waiters, c)
               /\ lk_pc' = [lk_pc EXCEPT ![c] = "waiting"]
               /\ UNCHANGED sync_locked
    /\ UNCHANGED <<sync_woken, foreign_release>>
    /\ UNCHANGED <<rq_vars, p_vars, sync_vars, engine_vars>>

\* sync_lock.py:8: a woken waiter runs: it leaves the queue, takes the lock and
\* set_sync_running returns
SyncLockGranted(c) ==
    /\ lk_pc[c] = "waiting"
    /\ c \in sync_woken
    /\ sync_waiters' = SelectSeq(sync_waiters, LAMBDA w : w # c)
    /\ sync_woken' = sync_woken \ {c}
    /\ sync_locked' = TRUE
    /\ lk_pc' = [lk_pc EXCEPT ![c] = "in"]
    /\ UNCHANGED foreign_release
    /\ UNCHANGED <<rq_vars, p_vars, sync_vars, engine_vars>>

\* sync_lock.py:10-13: if _sync_lock.locked(): _sync_lock.release().  The lock
\* keeps no owner: it is released for whoever calls, a caller that is in or a
\* caller that never took it; on a free lock nothing happens.
SetSyncFinished(c) ==
    /\ lk_pc[c] \in {"in", "out"}
    /\ IF sync_locked
          THEN /\ sync_locked' = FALSE
               /\ sync_woken' = sync_woken \cup WakeUpFirst
               /\ foreign_release' = (foreign_release \/ lk_pc[c] = "out")
          ELSE UNCHANGED <<sync_locked, sync_woken, foreign_release>>
    /\ lk_pc' = [lk_pc EXCEPT ![c] = "out"]
    /\ UNCHANGED sync_waiters
    /\ UNCHANGED <<rq_vars, p_vars, sync_vars, engine_vars>>

\* sync_lock.py:4: _sync_lock = asyncio.Lock()
LockIdle ==
    /\ sync_locked = FALSE
    /\ sync_waiters = <<>>
    /\ sync_woken = {}
    /\ lk_pc = [c \in LockCallers |-> "out"]
    /\ foreign_release = FALSE

-----------------------------------------------------------------------------
(* Specifications *)

\* Spec: the bot after start-up on a fresh store: two triggers of run_full_sync
\* and a user of the instructor search
Init == SyncIdle /\ RetryIdle /\ ParserIdle /\ EngineIdle /\ LockIdle

Next ==
    \/ \E c \in Callers :
          \/ GetCached(c)
          \/ GetStartsReload(c)
          \/ GetWaits(c)
          \/ GetLockedReturns(c)
          \/ GetLockedReloads(c)
          \/ ReloadSelects(c)
          \/ ReloadFails(c)
          \/ ReloadAssigns(c)
    \/ \E r \in Runs :
          \/ StartRun(r)
          \/ FetchGroupsRaises(r)
          \/ FetchGroupsEmpty(r)
          \/ FetchGroupsOk(r)
          \/ EnsureGroup(r)
          \/ GroupWithoutSchedule(r)
          \/ GroupSynced(r)
          \/ GroupFails(r)
          \/ DeleteGroups(r)
          \/ DeleteGroupsFails(r)
          \/ DisableCacheUpdates(r)
          \/ RebuildProfessorLessons(r)
          \/ CommitRebuild(r)
          \/ RebuildFails(r)
          \/ DeleteProfessors(r)
          \/ DeleteProfessorsFails(r)
          \/ EnableCacheUpdates(r)
          \/ CloseClient(r)
          \/ LogSummary(r)
          \/ RefreshKeyboards(r)
          \/ RunOver(r)

Spec == Init /\ [][Next]_vars

\* SpecCache: the same with a user of the whole cache interface:
\* get_cached_professors, update_professors_cache, invalidate_professors_cache
NextCache ==
    \/ Next
    \/ \E c \in Readers :
          \/ InvalidateCache(c)
          \/ InvalidateWaits(c)
          \/ InvalidateLocked(c)
          \/ UpdateStarts(c)
          \/ UpdateWaits(c)
          \/ UpdateLocked(c)
          \/ UpdateSelects(c)
          \/ UpdateFails(c)
          \/ UpdateAssigns(c)

SpecCache == Init /\ [][NextCache]_vars

\* SpecRetry: one call of request_with_retry against a scripted remote
InitRetry == RetryCall /\ ParserIdle /\ SyncIdle /\ EngineIdle /\ LockIdle

NextRetry ==
    \/ AttemptOk
    \/ AttemptNotFound
    \/ AttemptRateLimited
    \/ AttemptServerError
    \/ AttemptOtherStatus
    \/ AttemptException
    \/ Exhausted

SpecRetry == InitRetry /\ [][NextRetry]_vars

\* SpecParse: one call of extract_lessons_from_timetable_json, its input read as
\* the call goes
InitParse == ParseCall /\ RetryIdle /\ SyncIdle /\ EngineIdle /\ LockIdle

NextParse ==
    \/ ParseEmpty
    \/ ParseDocument
    \/ ParseContainer
    \/ ParseReturn

SpecParse == InitParse /\ [][NextParse]_vars

\* SpecEngine: the three entry points of worker.py called one after the other on
\* a store that starts empty
InitEngine == EngineStart /\ RetryIdle /\ ParserIdle /\ LockIdle

NextEngine ==
    \/ CallGroupSync
    \/ CallFacultySync
    \/ CallFullSync

SpecEngine == InitEngine /\ [][NextEngine]_vars

\* SpecLock: the callers of sync_lock.py: each calls set_sync_running and
\* set_sync_finished in any order
InitLock == LockIdle /\ SyncIdle /\ RetryIdle /\ ParserIdle /\ EngineIdle

NextLock ==
    \E c \in LockCallers :
        \/ SetSyncRunning(c)
        \/ SyncLockGranted(c)
        \/ SetSyncFinished(c)

SpecLock == InitLock /\ [][NextLock]_vars

-----------------------------------------------------------------------------
(* Claims about run_full_sync and the instructor cache, checked under Spec *)

\* from CACHE_UPDATE_ENABLED = False (worker.py:313) until it is True again (345)
InRebuildPhase(r) == pc[r] \in {"rebuild", "commit_rebuild", "cleanup", "enable"}

\* a step on which get_cached_professors returns to c; what it returns is the
\* cache after the step
ReturnsFromCall(c) == GetCached(c) \/ GetLockedReturns(c) \/ ReloadAssigns(c)

\* C1: at most one synchronization run is active at any time.
C1_AtMostOneRunActive == Cardinality({r \in Runs : Active(r)}) <= 1

\* C2: a get_cached_professors call that returns while a run is in its rebuild
\* phase returns the cache that run found when it closed the gate.
C2_ReturnsPreRebuildSnapshot ==
    [][\A c \in Callers, r \in Runs :
          (InRebuildPhase(r) /\ ReturnsFromCall(c)) => professors_cache' = pre_rebuild[r]]_vars

\* C3: when a run that went through rebuild and cleanup has ended, its closing
\* get_cached_professors having returned, the cache holds exactly the committed
\* Professor rows.
C3_CacheIsCommittedAtEnd ==
    \A r \in Runs :
        (pc[r] = "done" /\ exit_kind[r] = "normal")
            => professors_cache = committed.Professor

\* C4: the gate is closed only while a run is in its rebuild phase: every way out
\* of the phase, with the rebuild and the cleanup done or failed, opens it, so
\* that a run that has ended with no other run rebuilding leaves the gate open.
C4_GateRestored ==
    (\A r \in Runs : ~InRebuildPhase(r)) => CACHE_UPDATE_ENABLED

\* a run has ended after its rebuild failed, nothing else runs, the gate is open
C4_Witness ==
    \E r \in Runs :
        /\ pc[r] = "raised" /\ exit_kind[r] = "normal" /\ ~existing_profs[r]
        /\ \A o \in Runs \ {r} : pc[o] = "idle"
        /\ CACHE_UPDATE_ENABLED

\* C9: over all callers of the process, the requests in flight are never more
\* than the configured concurrency limit.
C9_InFlightWithinLimit ==
    Cardinality({r \in Runs : InFlight(r)}) <= REQUEST_CONCURRENCY

-----------------------------------------------------------------------------
(* Claims about request_with_retry, checked under SpecRetry *)

\* the failures the loop retries according to the contract: 5xx, 429, transport
RetryableFailure(resp) ==
    \/ resp.status = TRANSPORT
    \/ resp.status = 429
    \/ (500 <= resp.status /\ resp.status <= 599)

Success200 == [status |-> 200, json |-> TRUE]

\* C5: when the remote answers k < N times with 5xx, 429 or a transport failure and
\* then with 200, the finished call has returned after exactly k+1 attempts and
\* exactly k backoff sleeps, the i-th lasting backoff^i; with backoff > 1 the sleeps
\* strictly increase.
C5_RetryThenSuccess ==
    \A k \in 0..(MaxAttempts - 1) :
        ( /\ k < max_retries
          /\ \A i \in 1..k : RetryableFailure(script[i])
          /\ script[k + 1] = Success200
          /\ rq_pc # "loop" )
        => /\ rq_pc = "returned"
           /\ rq_out.kind = "json"
           /\ attempts = k + 1
           /\ Len(sleeps) = k
           /\ \A i \in 1..k : sleeps[i] = Pow(backoff, i)
           /\ backoff > 1 => \A i \in 1..(k - 1) : sleeps[i] < sleeps[i + 1]

\* 500, 500, 200: three attempts and two increasing sleeps
C5_Witness ==
    /\ rq_pc = "returned"
    /\ script[1].status = 500 /\ script[2].status = 500 /\ script[3] = Success200
    /\ attempts = 3
    /\ Len(sleeps) = 2 /\ sleeps[1] < sleeps[2]

\* C6: a 404 on attempt i ends the call on that attempt with the parsed body, or with
\* the synthetic marker when the body is not JSON; no backoff sleep follows it and no
\* further attempt is made (i = 1: one attempt, no backoff sleep).
C6_NotFoundEndsCall ==
    \A i \in 1..MaxAttempts :
        (attempts >= i /\ script[i].status = 404)
        => /\ rq_pc = "returned"
           /\ rq_out = [kind |-> IF script[i].json THEN "body404" ELSE "marker404",
                        status |-> 404, attempt |-> i]
           /\ attempts = i
           /\ Len(sleeps) = i - 1
           /\ i = 1 => sleeps = <<>>

\* a 404 without a JSON body on the first attempt: one attempt, the marker, no sleep
C6_Witness ==
    /\ rq_pc = "returned"
    /\ rq_out.kind = "marker404"
    /\ attempts = 1
    /\ sleeps = <<>>

\* C7: the call never makes more than max_retries attempts, and when it raises after
\* attempts that all failed with a retryable error, what it raises is the error of
\* the last attempt, for every configured maximum.
C7_LastErrorRaised ==
    /\ attempts <= max_retries
    /\ ( /\ rq_pc = "raised"
         /\ \A i \in 1..attempts : RetryableFailure(script[i]) )
       => /\ rq_out.kind \in {"HTTPStatusError", "RequestError"}
          /\ rq_out.attempt = max_retries
          /\ rq_out.status = script[max_retries].status

\* C7 for a maximum of at least one attempt
C7_LastErrorRaisedPositiveMaximum ==
    /\ attempts <= max_retries
    /\ ( /\ rq_pc = "raised"
         /\ max_retries >= 1
         /\ \A i \in 1..attempts : RetryableFailure(script[i]) )
       => /\ rq_out.kind \in {"HTTPStatusError", "RequestError"}
          /\ rq_out.attempt = max_retries
          /\ rq_out.status = script[max_retries].status

\* C8: a 4xx other than 404 and 429 on attempt i is raised on that attempt: no
\* backoff sleep follows it and no further attempt is made.
C8_Other4xxRaisedAtOnce ==
    \A i \in 1..MaxAttempts :
        ( /\ attempts >= i
          /\ 400 <= script[i].status /\ script[i].status <= 499
          /\ script[i].status \notin {404, 429} )
        => /\ rq_pc = "raised"
           /\ rq_out = HTTPStatusError(script[i].status, i)
           /\ attempts = i
           /\ Len(sleeps) = i - 1

\* a 403 on the second attempt, after one retried failure
C8_Witness ==
    /\ rq_pc = "raised"
    /\ rq_out = HTTPStatusError(403, 2)
    /\ attempts = 2
    /\ Len(sleeps) = 1

-----------------------------------------------------------------------------
(* Claims about extract_lessons_from_timetable_json, checked under SpecParse *)

RecordSet == {records[i] : i \in 1..Len(records)}

\* C10: for one raw document the returned records are one per distinct composite
\* key (weekday, slot, subject, instructors, room, week-parity, type) among its
\* containers: containers equal on the key give exactly one record.
C10_OneRecordPerKey ==
    (p_pc = "returned" /\ p_docs <= 1)
    => /\ RecordSet = p_keys
       /\ Len(records) = Cardinality(p_keys)

\* a returned document with more containers than keys: two of them were equal
C10_Witness ==
    /\ p_pc = "returned"
    /\ p_docs = 1
    /\ p_n = 3
    /\ Cardinality(p_keys) = 2
    /\ Len(records) = 2

-----------------------------------------------------------------------------
(* Claims about the three entry points, checked under SpecEngine *)

\* the last call was run_full_sync_for_group / _for_faculty / run_full_sync
GroupSyncDone == call.entry = "group"
FacultySyncDone == call.entry = "faculty"
FullSyncDone == call.entry = "full"

\* the document the remote held for a group during the last call
Fetched(group_name) == call.timetable[group_name]

\* the Lesson rows the normalizer's records of a document stand for
RecordRows(group_name, tt_json) ==
    LET recs == extract_lessons_from_timetable_json(tt_json)
    IN BagOfAll(LAMBDA i : LessonRow(group_name, recs[i]), SetToBag(DOMAIN recs))

\* C11: run_full_sync_for_group(g) run twice in a row against the same catalog
\* and the same timetable document: when the first run returned, the second
\* returns too and leaves the same Lesson rows for g.
C11_SecondRunLeavesSameRows ==
    [][(GroupSyncDone /\ result.kind = "returned" /\ call' = call)
       => /\ result'.kind = "returned"
          /\ LessonsOf(committed', call.group_name) = LessonsOf(committed, call.group_name)]_vars

\* the same for a remote that answers with one document of lessons that have no
\* NULL column: the case in which the code is idempotent
C11_SecondRunSameForOneDocument ==
    [][(/\ GroupSyncDone /\ result.kind = "returned" /\ call' = call
        /\ call.timetable # <<>>
        /\ Fetched(call.group_name) \in {Message, EmptyTimetable, OneLesson})
       => /\ result'.kind = "returned"
          /\ LessonsOf(committed', call.group_name) = LessonsOf(committed, call.group_name)]_vars

\* the schedule types of the documents fetched (parser.py:152)
SyncedTypes(tt_json) == {TypeOf(tt_json.docs[i]) : i \in DOMAIN tt_json.docs}

\* the committed Lesson rows of a group that have one of these types
RowsOfTypes(group_name, types) ==
    KeepRows(LessonsOf(committed, group_name),
             {row \in BagToSet(committed.Lesson) : row.type \in types})

\* the group's rows of the synced types are the normalizer's records, one row
\* per record
RowsAreTheRecords(group_name) ==
    RowsOfTypes(group_name, SyncedTypes(Fetched(group_name)))
        = RecordRows(group_name, Fetched(group_name))

\* C12: after a call of any of the three entry points, for every group whose
\* per-group pipeline committed in that call, the group's Lesson rows of the
\* synced schedule type are exactly the normalizer's records of the fetched
\* document (earlier rows of the type gone, one row per record), and
\* run_full_sync_for_group returns the number of records.
C12_RowsAreTheRecords ==
    \A g \in log.synced :
        /\ RowsAreTheRecords(g)
        /\ GroupSyncDone
              => result.value = Len(extract_lessons_from_timetable_json(Fetched(g)))

\* the same for the pipelines that committed at least one record: what the code
\* does keep
C12_RowsAreTheRecordsWhenSome ==
    \A g \in log.synced :
        extract_lessons_from_timetable_json(Fetched(g)) # <<>>
        => /\ RowsAreTheRecords(g)
           /\ GroupSyncDone
                 => result.value = Len(extract_lessons_from_timetable_json(Fetched(g)))

\* the last call was run_full_sync_for_group(X) and X had nothing to sync: it
\* was absent from the catalog, or its timetable was a message, or the
\* normalizer found no record
NothingToSync ==
    /\ GroupSyncDone
    /\ ~call.catalog_fails
    /\ \/ EntriesNamed(call.catalog, call.group_name) = <<>>
       \/ Fetched(call.group_name) = Message
       \/ /\ Fetched(call.group_name) # FetchError
          /\ extract_lessons_from_timetable_json(Fetched(call.group_name)) = <<>>

\* C13: run_full_sync_for_group(X) returns 0 and leaves no Group row X and no
\* Lesson row of X when X is absent from the catalog, when its timetable is a
\* not-found message, and when the normalizer yields zero records.
C13_NothingToSyncDeletes ==
    NothingToSync
    => /\ result.kind = "returned"
       /\ result.value = 0
       /\ GroupNamed(committed, call.group_name) = {}
       /\ LessonsOf(committed, call.group_name) = EmptyBag

\* a group stored with a lesson is gone after a sync that found no record for it
C13_Witness ==
    /\ NothingToSync
    /\ EntriesNamed(call.catalog, call.group_name) # <<>>
    /\ Fetched(call.group_name) = EmptyTimetable
    /\ GroupNamed(before, call.group_name) # {}
    /\ LessonsOf(before, call.group_name) # EmptyBag
    /\ GroupNamed(committed, call.group_name) = {}
    /\ result = Returned(0, FALSE)

\* C14: after every run_full_sync that ends without raising, whatever the
\* catalog (an empty one included), the store holds no Group row whose name was
\* absent from the catalog fetched in that run.
C14_NoGroupAbsentFromCatalog ==
    (FullSyncDone /\ result.kind = "returned")
    => \A g \in committed.Group : g.group_name \in NamesIn(call.catalog)

\* the same for the runs that got a catalog with groups in it and whose deletion
\* phase did not fail
C14_NoGroupAbsentFromFilledCatalog ==
    (FullSyncDone /\ result.kind = "returned" /\ call.catalog # <<>>
        /\ call.fault # "delete_groups")
    => \A g \in committed.Group : g.group_name \in NamesIn(call.catalog)

\* the last call was a run_full_sync that went through its group loop, whose
\* later phases did not fail and which returned
PassedGroupLoop ==
    /\ FullSyncDone
    /\ ~call.catalog_fails
    /\ call.catalog # <<>>
    /\ call.fault = "none"
    /\ result.kind = "returned"

\* C15: after a run_full_sync that has passed its group loop, every persisted
\* Group is in the valid set, the groups that yielded at least one record and
\* were committed in this run, and so is the group of every persisted Lesson:
\* the groups without schedule, those that failed and those cut off by the
\* limit are gone with their Lessons.
C15_OnlyCommittedGroupsStay ==
    PassedGroupLoop
    => /\ \A g \in committed.Group : g.group_name \in log.synced
       /\ \A row \in BagToSet(committed.Lesson) : row.group_id \in log.synced

\* the same with the set the code keeps, valid_groups, which a group enters
\* before its commit
C15_OnlyValidGroupsStay ==
    PassedGroupLoop
    => /\ \A g \in committed.Group : g.group_name \in log.valid
       /\ \A row \in BagToSet(committed.Lesson) : row.group_id \in log.valid

\* the last call was run_full_sync_for_faculty(F) with a catalog that holds at
\* least one group of F
FacultyHadGroups ==
    /\ FacultySyncDone
    /\ ~call.catalog_fails
    /\ \E i \in DOMAIN call.catalog : call.catalog[i].facultyName = call.faculty_name

\* the groups of the last call that were committed with at least one record
YieldedRecords ==
    {g \in log.synced : extract_lessons_from_timetable_json(Fetched(g)) # <<>>}

\* C16: for every catalog with at least one group of faculty F,
\* run_full_sync_for_faculty(F) completes, and afterwards every persisted Group
\* of F is one that yielded at least one record in this run; the other Groups
\* of F (no schedule, zero records, failed) are deleted with their Lessons.
C16_OnlyGroupsWithRecordsStay ==
    FacultyHadGroups
    => /\ result.kind = "returned"
       /\ \A g \in committed.Group :
             g.faculty_id = call.faculty_name => g.group_name \in YieldedRecords

\* what the code does keep: when the call returns, every persisted Group of F
\* is in valid_groups, and the call returns their number
C16_OnlyValidGroupsOfFacultyStay ==
    (FacultyHadGroups /\ result.kind = "returned")
    => /\ \A g \in committed.Group :
             g.faculty_id = call.faculty_name => g.group_name \in log.valid
       /\ result.value = Cardinality(log.valid)

\* C17: run_full_sync_for_faculty(F) leaves every Group row that the store
\* assigns to a faculty other than F, and every Lesson row of such a group, as
\* they were.
C17_OtherFacultiesUntouched ==
    FacultySyncDone
    => \A g \in before.Group :
          g.faculty_id # call.faculty_name
          => /\ g \in committed.Group
             /\ LessonsOf(committed, g.group_name) = LessonsOf(before, g.group_name)

\* the same for the groups of other faculties that the catalog does not list
\* under F
C17_OtherFacultiesUntouchedUnlessListed ==
    FacultySyncDone
    => \A g \in before.Group :
          (/\ g.faculty_id # call.faculty_name
           /\ \A i \in DOMAIN call.catalog :
                 call.catalog[i].groupName = g.group_name
                 => call.catalog[i].facultyName # call.faculty_name)
          => /\ g \in committed.Group
             /\ LessonsOf(committed, g.group_name) = LessonsOf(before, g.group_name)

\* the catalog entries the loop of the last call went through
Processed ==
    IF FullSyncDone
       THEN SelectSeq(call.catalog, LAMBDA g : TRUE)
    ELSE SelectSeq(call.catalog, LAMBDA g : g.facultyName = call.faculty_name)

\* the positions of Processed the loop reached before the limit cut it off
Reached == {i \in DOMAIN Processed : ~CutOff(call.limit_groups, i - 1)}

\* processing this group raised: the fetch failed, or the commit did (the
\* document holds the same record twice)
GroupRaised(group_name) == Fetched(group_name) \in {FetchError, TwoBells}

\* the last call was a run_full_sync or run_full_sync_for_faculty in whose loop
\* a group raised, and nothing but groups failed: the catalog was fetched, no
\* later phase was made to fail and no Lesson row breaks the rebuild
OnlyGroupsRaised ==
    /\ FullSyncDone \/ FacultySyncDone
    /\ ~call.catalog_fails
    /\ call.fault = "none"
    /\ \E i \in Reached : GroupRaised(Processed[i].groupName)
    /\ FullSyncDone => upsert_lessons_for_professors(committed).ok

\* C18: in run_full_sync and run_full_sync_for_faculty an exception raised while
\* one group is processed does not abort the run: the call returns, the group's
\* uncommitted writes are rolled back (a group new to the store is not stored),
\* the loop goes on (a later group with a lesson is committed) and the rows
\* committed for the other groups are in the store.
C18_GroupFailureIsolated ==
    OnlyGroupsRaised
    => /\ result.kind = "returned"
       /\ \A i \in Reached :
             LET group_name == Processed[i].groupName
             IN /\ (GroupRaised(group_name) /\ GroupNamed(before, group_name) = {})
                      => GroupNamed(committed, group_name) = {}
                /\ Fetched(group_name) = OneLesson
                      => /\ group_name \in log.synced
                         /\ RowsAreTheRecords(group_name)

\* the same for run_full_sync alone
C18_GroupFailureIsolatedInFullSync ==
    (OnlyGroupsRaised /\ FullSyncDone)
    => /\ result.kind = "returned"
       /\ \A i \in Reached :
             LET group_name == Processed[i].groupName
             IN /\ (GroupRaised(group_name) /\ GroupNamed(before, group_name) = {})
                      => GroupNamed(committed, group_name) = {}
                /\ Fetched(group_name) = OneLesson
                      => /\ group_name \in log.synced
                         /\ RowsAreTheRecords(group_name)

\* a phase of the last run_full_sync raised: the catalog fetch, or, behind the
\* group loop, the deletion of stale groups, the rebuild or the cleanup
PhaseRaised ==
    /\ FullSyncDone
    /\ \/ call.catalog_fails
       \/ call.catalog # <<>> /\ call.fault \in {"delete_groups", "rebuild"}
       \/ /\ call.catalog # <<>>
          /\ call.fault \in {"cleanup_select", "cleanup_commit"}
          /\ upsert_lessons_for_professors(committed).ok

\* C19: an exception raised by the catalog fetch, by the deletion of stale
\* groups, by the derived rebuild or by the professor cleanup of run_full_sync
\* reaches the caller: the run ends by raising.
C19_PhaseFailureAborts == PhaseRaised => result.kind = "raised"

\* the part the code keeps: a failed catalog fetch ends the run with that error
\* and leaves the store as it was
C19_CatalogFailureAborts ==
    (FullSyncDone /\ call.catalog_fails)
    => /\ result = Raised("RequestError")
       /\ committed = before

\* C20: after every run_full_sync that ends without raising, for every Lesson
\* row with instructors and every name extracted from them there is a
\* ProfessorLesson row of that professor with the same weekday, slot, subject,
\* room and week-parity, Lesson rows without subject included.
C20_DerivedRowsExist ==
    (FullSyncDone /\ result.kind = "returned")
    => \A row \in BagToSet(committed.Lesson) :
          ProfessorLessonsOf(row) \subseteq BagToSet(committed.ProfessorLesson)

\* the same for the runs that got a catalog with groups in it
C20_DerivedRowsExistAfterRebuild ==
    (FullSyncDone /\ result.kind = "returned" /\ call.catalog # <<>>)
    => \A row \in BagToSet(committed.Lesson) :
          ProfessorLessonsOf(row) \subseteq BagToSet(committed.ProfessorLesson)

\* the instructors the committed Lesson rows name
NamedInLessons ==
    UNION {extract_professor_names(row.professors) : row \in BagToSet(committed.Lesson)}

\* C21: after every run_full_sync that ends without raising, no ProfessorLesson
\* row references an instructor whom no Lesson row names; rows of an earlier
\* rebuild do not survive.
C21_NoDerivedRowWithoutLesson ==
    (FullSyncDone /\ result.kind = "returned")
    => \A pl \in BagToSet(committed.ProfessorLesson) : pl.professor_id \in NamedInLessons

\* the same for the runs that got a catalog with groups in it
C21_NoDerivedRowWithoutLessonAfterRebuild ==
    (FullSyncDone /\ result.kind = "returned" /\ call.catalog # <<>>)
    => \A pl \in BagToSet(committed.ProfessorLesson) : pl.professor_id \in NamedInLessons

\* C22: after every run_full_sync that ends without raising, no Professor row is
\* left without ProfessorLesson rows.
C22_NoProfessorWithoutDerivedRow ==
    (FullSyncDone /\ result.kind = "returned")
    => \A prof \in committed.Professor :
          \E pl \in BagToSet(committed.ProfessorLesson) : pl.professor_id = prof

\* the same for the runs whose rebuild and cleanup went through
C22_NoProfessorWithoutDerivedRowAfterCleanup ==
    (FullSyncDone /\ result.kind = "returned" /\ call.catalog # <<>>
        /\ call.fault = "none")
    => \A prof \in committed.Professor :
          \E pl \in BagToSet(committed.ProfessorLesson) : pl.professor_id = prof

\* C23: run_full_sync_for_faculty and run_full_sync_for_group do no derived
\* rebuild: a call of either leaves the Professor table, the ProfessorLesson
\* table and the CACHE_UPDATE_ENABLED gate as they were, also when it deletes
\* groups.
C23_DerivedTablesUntouched ==
    [][(calls' = calls + 1 /\ call'.entry \in {"group", "faculty"})
       => /\ committed'.Professor = committed.Professor
          /\ committed'.ProfessorLesson = committed.ProfessorLesson
          /\ CACHE_UPDATE_ENABLED' = CACHE_UPDATE_ENABLED]_vars

\* a group whose lesson had been built into a ProfessorLesson row is deleted by
\* run_full_sync_for_group, and the derived row is still there
C23_Witness ==
    /\ GroupSyncDone
    /\ result = Returned(0, FALSE)
    /\ GroupNamed(before, call.group_name) # {}
    /\ GroupNamed(committed, call.group_name) = {}
    /\ before.ProfessorLesson # EmptyBag
    /\ committed.ProfessorLesson = before.ProfessorLesson
    /\ committed.Professor = before.Professor
    /\ CACHE_UPDATE_ENABLED

\* the groups whose timetable the last call asked for
Asked ==
    IF call.catalog_fails THEN {}
    ELSE IF GroupSyncDone
       THEN {call.group_name} \cap NamesIn(call.catalog)
    ELSE IF FullSyncDone \/ FacultySyncDone
       THEN {Processed[i].groupName : i \in Reached}
    ELSE {}

\* the schedule type a fetch was for: the type of the documents, and the default
\* type (type_idx = 0, "classes") where the remote sent no document
TypesAsked(tt_json) ==
    IF tt_json.docs = <<>> THEN {"classes"} ELSE SyncedTypes(tt_json)

\* the rows of a group in a store that are of none of these types
RowsOfOtherTypes(st, group_name, types) ==
    KeepRows(LessonsOf(st, group_name),
             {row \in BagToSet(st.Lesson) : row.type \notin types})

-----------------------------------------------------------------------------
(* Claims on the instructor directory cache and on the order of a run *)

\* caller c holds the lock and its reload is assigned by this step
ReloadCompletes(c) == call_pc[c] = "assign" /\ call_pc'[c] = "none"

\* caller c found the cache empty and the lock held, and waits for the lock
WaitsForLock(c) == call_pc[c] = "wait_lock" /\ call_pc'[c] = "wait_lock"

\* the second check (search_professors.py:57) and the gate test (91) as they
\* come out for the next caller to be granted the lock
SecondCheckReloads == professors_cache = {} /\ CACHE_UPDATE_ENABLED

\* C25: of several get_cached_professors calls running concurrently on an empty
\* cache with the gate open, at most one reloads from the store: once the reload
\* of the caller holding the lock is assigned, the second check of a caller
\* waiting for the lock does not pass, whatever the Professor table holds.
C25_WaiterDoesNotReload ==
    [][\A c1 \in Callers : \A c2 \in Callers \ {c1} :
          ReloadCompletes(c1) /\ WaitsForLock(c2) /\ CACHE_UPDATE_ENABLED
          => ~SecondCheckReloads']_vars

\* the same when the Professor table read by the reload is not empty
C25_WaiterDoesNotReloadFilledTable ==
    [][\A c1 \in Callers : \A c2 \in Callers \ {c1} :
          ReloadCompletes(c1) /\ WaitsForLock(c2) /\ all_professors[c1] # {}
          => ~SecondCheckReloads']_vars

\* C26: a get_cached_professors call that starts while CACHE_UPDATE_ENABLED is
\* false returns without taking the cache lock, without waiting for it and
\* without reading the store; the step of a run that makes the call leaves the
\* cache, which is what it returns, as it was, empty or stale.
C26_GateClosedReturnsSnapshot ==
    [][\A c \in Callers :
          call_pc[c] = "none" /\ ~CACHE_UPDATE_ENABLED
          => /\ call_pc'[c] = "none"
             /\ cache_lock' # c
             /\ all_professors'[c] = all_professors[c]
             /\ (c \in Runs /\ pc[c] = "final_get" /\ pc'[c] # "final_get")
                   => /\ professors_cache' = professors_cache
                      /\ cache_lock' = cache_lock
                      /\ pc'[c] = AfterFinally(c)]_vars

\* a run has made its call on an empty cache with the lock free while another
\* run held the gate closed, and is past it
C26_Witness ==
    \E r \in Runs :
        /\ pc[r] \in {"log", "done", "raised"}
        /\ ~CACHE_UPDATE_ENABLED
        /\ professors_cache = {}
        /\ cache_lock = Free
        /\ call_pc[r] = "none"

-----------------------------------------------------------------------------
(* Claims on the three entry points, continued *)

\* C27: every run_full_sync, run_full_sync_for_faculty and
\* run_full_sync_for_group call that ends without raising has called
\* refresh_all_keyboards after its last store commit, also when its outcome is
\* the deletion of a group and when the catalog is empty.
C27_ReturnedCallsRefreshed ==
    result.kind = "returned" => result.refreshed

\* the last call was left through one of the early returns: worker.py:255-257
\* and 388-398 (no catalog, no group of the faculty), 491-507 (nothing to sync
\* for the group, which is deleted)
EarlyReturn ==
    /\ ~call.catalog_fails
    /\ \/ FullSyncDone /\ call.catalog = <<>>
       \/ FacultySyncDone /\ ~FacultyHadGroups
       \/ NothingToSync

\* the calls that return past their early returns have refreshed the keyboards
C27_RefreshedPastEarlyReturns ==
    (result.kind = "returned" /\ ~EarlyReturn) => result.refreshed

-----------------------------------------------------------------------------
(* Claims on the order of the phases of run_full_sync *)

\* the place of a position of run_full_sync in the order of its phases
PhaseRank(position) ==
    CASE position = "idle" -> 0
      [] position = "fetch_groups" -> 1
      [] position \in {"ensure", "fetch_timetable"} -> 2
      [] position = "delete_groups" -> 3
      [] position = "disable" -> 4
      [] position = "rebuild" -> 5
      [] position = "commit_rebuild" -> 6
      [] position = "cleanup" -> 7
      [] position = "enable" -> 8
      [] position = "close" -> 9
      [] position = "final_get" -> 10
      [] position = "log" -> 11
      [] position = "refresh" -> 12
      [] OTHER -> 13

\* a step of run r
Moves(r) == pc'[r] # pc[r]

\* the phases that occur in a run occur in the order of the code, the gate is
\* closed before the rebuild and opened after it, and the deletion of groups
\* starts after the last group of the catalog
OrderedStep(r) ==
    /\ pc'[r] # "idle" => PhaseRank(pc'[r]) >= PhaseRank(pc[r])
    /\ pc'[r] = "delete_groups" => idx'[r] > Len(groups[r])
    /\ pc'[r] = "rebuild" => pc[r] = "disable" /\ ~CACHE_UPDATE_ENABLED'
    /\ pc'[r] = "cleanup" => pc[r] = "commit_rebuild" /\ committed' = db
    /\ pc[r] = "enable" => CACHE_UPDATE_ENABLED'
    /\ pc'[r] = "log" => pc[r] = "final_get"
    /\ pc'[r] = "refresh" => pc[r] = "log"

\* the run goes on from the deletion of groups to the rebuild with the deletion
\* committed: no Group outside valid_groups is left
DeletionCommitted(r) ==
    (pc[r] = "delete_groups" /\ pc'[r] = "disable")
    => /\ committed' = db'
       /\ committed'.Group \subseteq valid_groups[r]

\* the run goes on from the cleanup to the opening of the gate, the cache read
\* and the refresh with the cleanup committed: every Professor has derived rows
CleanupCommitted(r) ==
    (pc[r] = "cleanup" /\ pc'[r] = "enable")
    => /\ committed' = db'
       /\ committed'.Professor \subseteq committed'.ProfessorLesson

\* C28: within one run_full_sync the phases occur in this order, each with its
\* own commit: the per-group commits, the commit of the stale-group deletion,
\* the gate set to false, the commit of the derived rebuild, the commit of the
\* professor cleanup, the gate set to true, the cache read, the keyboard
\* refresh; no group is deleted before the last group is processed and no
\* rebuild starts before the deletion is committed.
C28_PhasesInOrder ==
    [][\A r \in Runs :
          Moves(r) => OrderedStep(r) /\ DeletionCommitted(r) /\ CleanupCommitted(r)]_vars

\* the phases that occur, occur in the order of the code
C28_PhasesThatOccurInOrder ==
    [][\A r \in Runs : Moves(r) => OrderedStep(r)]_vars

-----------------------------------------------------------------------------
(* Claims about extract_lessons_from_timetable_json, continued *)

\* C29: the records returned by one extract_lessons_from_timetable_json call
\* are pairwise distinct on the persisted composite (weekday, slot, subject,
\* instructors, room, week-parity, type), which is the whole record, also when
\* equal containers sit in different documents of a list whose lessonTimeData
\* differ: inserting them cannot violate the uniqueness of Lesson.
C29_RecordsPairwiseDistinct ==
    p_pc = "returned"
    => \A i, j \in DOMAIN records : records[i] = records[j] => i = j

-----------------------------------------------------------------------------
(* Claims on the derived rebuild, continued *)

\* the last call was a run_full_sync that came to the derived rebuild, with no
\* store error in its final phases and no Lesson row that names an instructor
\* without a subject
RebuildRan ==
    /\ FullSyncDone
    /\ ~call.catalog_fails
    /\ call.catalog # <<>>
    /\ call.fault = "none"
    /\ \A row \in BagToSet(committed.Lesson) :
          TruthyStr(row.professors) => row.subject # None

-----------------------------------------------------------------------------
(* Claims on the Faculty and Group rows *)

\* the names of the committed Group rows
GroupNames_committed == {g.group_name : g \in committed.Group}

C32_FacultiesOnlyGrow ==
    [][committed.Faculty \subseteq committed'.Faculty]_vars

\* the last call deleted the last group of a faculty, and the faculty is there
C32_Witness ==
    \E g \in before.Group :
        /\ g.faculty_id \in committed.Faculty
        /\ \A h \in committed.Group : h.faculty_id # g.faculty_id

-----------------------------------------------------------------------------
(* Claims on the gate of the instructor directory cache *)

\* C33: while CACHE_UPDATE_ENABLED is false the content of the instructor cache
\* does not change: no reload writes the cache during the rebuild, a reload that
\* began before the gate was closed included.
C33_CacheFrozenWhileGateClosed ==
    [][(~CACHE_UPDATE_ENABLED /\ ~CACHE_UPDATE_ENABLED')
          => professors_cache' = professors_cache]_vars

\* no reload begins while the gate is closed
C33_NoReloadBeginsWhileGateClosed ==
    [][\A c \in Callers :
          (~CACHE_UPDATE_ENABLED /\ call_pc[c] # "select") => call_pc'[c] # "select"]_vars

\* C34: CACHE_UPDATE_ENABLED is false at every moment at which a run_full_sync
\* is between the start of its derived rebuild and the end of its professor
\* cleanup, also when two runs overlap.
C34_GateClosedDuringRebuild ==
    \A r \in Runs :
        pc[r] \in {"rebuild", "commit_rebuild", "cleanup"} => ~CACHE_UPDATE_ENABLED

\* during the rebuild of a run the gate is opened by nothing but the finally
\* block of another run
C34_GateOpenedOnlyByAnotherRun ==
    [][\A r \in Runs :
          (/\ pc[r] \in {"rebuild", "commit_rebuild", "cleanup"}
           /\ pc'[r] \in {"rebuild", "commit_rebuild", "cleanup"}
           /\ ~CACHE_UPDATE_ENABLED /\ CACHE_UPDATE_ENABLED')
          => \E o \in Runs \ {r} : pc[o] = "enable" /\ pc'[o] = "close"]_vars

-----------------------------------------------------------------------------
(* Claims on the TimetableClient of a call *)

\* C35: each of the three entry points closes the TimetableClient it created on
\* every exit path: normal return, early return and every raised exception, a
\* failed catalog fetch included.
C35_ClientClosed ==
    result.kind # "none" => client_closed

\* the same for the calls that return
C35_ClientClosedOnReturn ==
    result.kind = "returned" => client_closed

\* the same for run_full_sync and run_full_sync_for_group
C35_ClientClosedByFinally ==
    (FullSyncDone \/ GroupSyncDone) => client_closed

-----------------------------------------------------------------------------
(* Claims on a failed derived rebuild *)

\* the last call was a run_full_sync whose derived rebuild failed: a store error
\* after the delete, or a flush that the schema refuses
RebuildFailed ==
    /\ FullSyncDone
    /\ ~call.catalog_fails
    /\ call.catalog # <<>>
    /\ call.fault = "rebuild" \/ ~upsert_lessons_for_professors(committed).ok

\* C36: when upsert_lessons_for_professors fails, its delete of the
\* ProfessorLesson rows and every row it added are rolled back: the committed
\* Professor and ProfessorLesson tables are as they were before the rebuild,
\* and run_full_sync gets the error (it goes on without existing_profs).
C36_FailedRebuildRolledBack ==
    RebuildFailed
    => /\ committed.Professor = before.Professor
       /\ committed.ProfessorLesson = before.ProfessorLesson
       /\ result = Raised("UnboundLocalError")

\* a rebuild failed on a store that had derived rows, and they are still there
C36_Witness ==
    /\ RebuildFailed
    /\ before.ProfessorLesson # EmptyBag
    /\ committed.ProfessorLesson = before.ProfessorLesson
    /\ committed.Professor # {}

-----------------------------------------------------------------------------
(* Claims about sync_lock.py, checked under SpecLock *)

\* the callers between the return of set_sync_running and set_sync_finished
InSync == {c \in LockCallers : lk_pc[c] = "in"}

\* C37: the sync lock gives mutual exclusion: at most one caller is between the
\* return of its set_sync_running and its set_sync_finished, and is_sync_running
\* is true exactly then, also after a set_sync_finished by a caller that does not
\* hold the lock.
C37_MutualExclusion ==
    /\ Cardinality(InSync) <= 1
    /\ is_sync_running <=> InSync # {}

\* the same as long as set_sync_finished has been called on a taken lock by its
\* holder only
C37_MutualExclusionAmongHolders ==
    ~foreign_release
    => /\ Cardinality(InSync) <= 1
       /\ is_sync_running <=> InSync # {}

\* set_sync_finished on a lock that is not taken changes nothing of the lock
C37_FinishedOnFreeLock ==
    [][\A c \in LockCallers :
          (~sync_locked /\ lk_pc[c] = "out" /\ lk_pc'[c] = "out" /\ lk_pc' = lk_pc)
          => UNCHANGED <<sync_locked, sync_waiters, sync_woken>>]_vars

-----------------------------------------------------------------------------
(* Claims on the whole interface of the instructor cache, checked under SpecCache *)

\* the reload of get_cached_professors of caller c is assigned by this step
GetAssigns(c) == call_pc[c] = "assign" /\ call_pc'[c] = "none"

\* the select of the reload of get_cached_professors of caller c runs
GetSelects(c) == call_pc[c] = "select" /\ call_pc'[c] = "assign"

\* a step of update_professors_cache or invalidate_professors_cache that writes
\* the cache
ForcedWrite ==
    \E c \in Readers :
        \/ call_pc[c] = "update_assign" /\ call_pc'[c] = "none"
        \/ call_pc[c] = "wait_invalidate" /\ call_pc'[c] = "none"
        \/ call_pc[c] = "none" /\ call_pc' = call_pc /\ professors_cache' = {}

\* get_cached_professors never reloads a cache that is not empty, and a cache
\* that is not empty changes only through update_professors_cache or
\* invalidate_professors_cache
NonEmptyCacheKept ==
    /\ \A c \in Callers : GetAssigns(c) => professors_cache = {}
    /\ (professors_cache # {} /\ professors_cache' # professors_cache) => ForcedWrite

\* the reload of get_cached_professors reads the committed Professor rows
ReloadReadsCommitted ==
    \A c \in Callers : GetSelects(c) => all_professors'[c] = committed.Professor

\* C38: get_cached_professors never reloads a non-empty cache: once the cache
\* holds an entry its content changes only through update_professors_cache or
\* invalidate_professors_cache, and a get_cached_professors that finds the
\* cache empty with the gate open, as after invalidate_professors_cache, reloads
\* from the store and returns the committed Professor rows.
C38_CacheInterface ==
    [][NonEmptyCacheKept /\ ReloadReadsCommitted]_vars

\* the first half alone
C38_NonEmptyCacheKept ==
    [][NonEmptyCacheKept]_vars

-----------------------------------------------------------------------------
(* Claims on the scheduler loop, checked under Spec *)

\* C39: the scheduler loop survives a failed run: when run_full_sync raises
\* inside _scheduler_loop the error is caught, the loop goes on to wait for the
\* next 03:00, and the next due run can start: the loop never ends because a
\* run failed.
C39_LoopSurvivesFailedRun ==
    [][(pc["scheduler"] = "raised" /\ pc'["scheduler"] # "raised")
          => /\ pc'["scheduler"] = "idle"
             /\ semaphore'["scheduler"] > 0]_vars

\* a run started by the scheduler has raised
C39_Witness ==
    /\ pc["scheduler"] = "raised"
    /\ exit_kind["scheduler"] = "raise"

=============================================================================
